---- MODULE Spec2Model ----
(***************************************************************************)
(* Model of the twoyi server's virtual input devices                       *)
(* (src/server/src/input.rs) and of the control endpoint's producers       *)
(* (src/server/src/main.rs, handle_input_event).                           *)
(*                                                                         *)
(* Two devices, "touch" and "key".  Each has a server thread that accepts  *)
(* guest consumers on a domain socket; per accepted consumer it writes the *)
(* device descriptor, creates an mpsc channel, stores the Sender in the    *)
(* device's global Mutex<Option<Sender>> and spawns a dispatch thread that *)
(* drains the Receiver into the consumer socket.  Producers are the        *)
(* threads of the control clients; they call handle_touch_event and        *)
(* send_key_code, which hold the device's sender mutex for the whole call. *)
(*                                                                         *)
(* Three specifications share the state and the definitions:               *)
(*   Spec       both devices, consumers and dispatch threads; one producer *)
(*              whose calls are single steps (pointer 1 down / up and key  *)
(*              taps);                                                     *)
(*   SpecTouch  the touch handler with every action and pointer, calls as  *)
(*              single steps, one consumer;                                *)
(*   SpecSteps  several producers running handle_touch_event on pointer 0  *)
(*              one input_event_write at a time under the sender mutex,    *)
(*              which is what makes a call a single step in the other two. *)
(*                                                                         *)
(* Event timestamps (clock_gettime) are not modelled.  Fields named g_*    *)
(* are history tags that the program does not store.                       *)
(***************************************************************************)
EXTENDS Integers, Sequences, FiniteSets, TLC

(* ------------------------------ bounds -------------------------------- *)
NumProducers == 2
MaxAccepts == 2
MaxActions == 2
MaxEvents == 4
MaxTouchActions == 3
MaxPid == 1
MaxBuffers == 2
MaxRequests == 3
NumStarters == 2
MaxStarts == 3
MaxClients == 3
MaxTicks == 2
MaxBytes == 2

(* ------------------------- program constants -------------------------- *)
MAX_POINTERS == 5

ACTION_DOWN == 0
ACTION_UP == 1
ACTION_MOVE == 2
ACTION_CANCEL == 3
ACTION_POINTER_DOWN == 5
ACTION_POINTER_UP == 6

EV_SYN == 0
EV_KEY == 1
EV_ABS == 3
SYN_REPORT == 0
ABS_MT_SLOT == 47
ABS_MT_POSITION_X == 53
ABS_MT_POSITION_Y == 54
ABS_MT_TRACKING_ID == 57
ABS_MT_PRESSURE == 58
BTN_TOOL_FINGER == 325
BTN_TOUCH == 330
BTN_DOWN == 108

\* gralloc.rs: GrallocCommand and PixelFormat
CMD_ALLOCATE == 1
CMD_FREE == 2
CMD_LOCK == 3
CMD_UNLOCK == 4
CMD_GET_INFO == 5
CMD_IMPORT_BUFFER == 6
CMD_PRESENT == 7
RGBA8888 == 1
RGBX8888 == 2
RGB888 == 3
RGB565 == 4
BGRA8888 == 5
ALREADY_SENT == -2

I32_MAX == 2147483647
I32_MIN == (-I32_MAX) - 1
U16_MOD == 65536

(* ------------------------------ inputs -------------------------------- *)
Devices == {"touch", "key"}
Producers == 1..NumProducers
Consumers == 1..MaxAccepts
Slots == 0..(MAX_POINTERS - 1)
PointerIds == 0..MaxPid

\* Every action code the match in handle_touch_event distinguishes, and one
\* (4) that falls to the default arm.
TouchActions ==
  {ACTION_DOWN, ACTION_UP, ACTION_MOVE, ACTION_CANCEL, 4,
   ACTION_POINTER_DOWN, ACTION_POINTER_UP}

\* f32 arguments (x, y, pressure), in halves: (100.5, 200.0, 50.5).
TouchPoints == { [x |-> 201, y |-> 400, p |-> 101] }

\* 65694 = 65536 + 158 does not fit in the u16 code field.
KeyCodes == {65694}

(* ----------------------------- conversions ---------------------------- *)
\* `v as i32` for an f32 given in halves: truncation toward zero, saturating.
F32AsI32(h) ==
  LET t == IF h >= 0 THEN h \div 2 ELSE -((-h) \div 2)
  IN  IF t > I32_MAX THEN I32_MAX ELSE IF t < I32_MIN THEN I32_MIN ELSE t

\* `v as u16` for an i32.
AsU16(v) == v % U16_MOD

\* The input_event built by input_event_write (without its timestamp).
InputEvent(kind, code, val) ==
  [kind |-> AsU16(kind), code |-> AsU16(code), value |-> val]

(* ------------------------------- state -------------------------------- *)
VARIABLES
  mt,        \* G_INPUT_MT: slot -> 0/1
  sender,    \* INPUT_SENDER / KEY_SENDER: 0 (None) or the consumer whose channel it feeds
  lock,      \* holder of the device's sender mutex: 0 (free), a producer, or Poisoned
  srv,       \* position of the device's server thread: "accept" / "register" / "dead"
  nAcc,      \* consumers accepted so far, per device
  chan,      \* per consumer: the mpsc queue
  enq,       \* per consumer: every event ever enqueued (history)
  wire,      \* per consumer: what was written to the consumer socket
  sock,      \* per consumer: "none" / "open" / "closed"
  thr,       \* per consumer: dispatch thread "none" / "running" / "exited"
  nFail,     \* per consumer: failed event writes of the dispatch thread (history)
  pc,        \* per producer: "idle" / "touch" (inside handle_touch_event) / "panicked"
  call,      \* per producer: arguments and context of the current or last call
  emitted,   \* per producer: events the current or last call passed to input_event_write
  touchLog,  \* (action, pointer_id) of the touch calls processed with a sender present (history)
  nActs      \* producer calls made so far

\* The gralloc server (src/server/src/gralloc.rs) and the latest-frame cell
\* of the streamer that its callback writes (src/server/src/framebuffer.rs).
VARIABLES
  buffers,            \* GrallocServer.buffers: the HashMap, a function on the ids it holds
  next_buffer_id,     \* GrallocServer.next_buffer_id
  display_buffer_id,  \* GrallocServer.display_buffer_id: NoneId or Some(id)
  callback,           \* GrallocServer.framebuffer_callback is Some
  cell,               \* FrameStreamer.gralloc_framebuffer
  gpc,                \* per connection: position of its worker thread
  greq,               \* per connection: the request being served, or served last
  inbox,              \* per connection: bytes sent by the client and not yet read
  reply,              \* per connection: the last response written
  pixels,             \* per connection: raw bytes written after the last response
  gLast,              \* the last step of a worker: connection, command, id, phase (history)
  io,                 \* per connection: request headers read and responses written (history)
  nReqs               \* requests sent so far

gVars ==
  <<buffers, next_buffer_id, display_buffer_id, callback, cell, gpc, greq,
    inbox, reply, pixels, gLast, io, nReqs>>

\* The frame streamer (src/server/src/framebuffer.rs) and the control
\* clients that handle_client registers with it (src/server/src/main.rs).
VARIABLES
  running,   \* FrameStreamer.running
  workers,   \* the worker threads start() has spawned, in order: position, locals
  spc,       \* per thread calling start(): "idle" / "swapped" (between swap and spawn)
  nStarts,   \* calls of start() so far
  clients,   \* FrameStreamer.clients: the Vec, in push order
  cpc,       \* per control client: its handle_client thread, "none" / "reading" / "ended"
  link,      \* per control client: "up", or "down" when a write to it fails
  recv,      \* per control client: the last frame packet written to it
  fbfile,    \* the file at FrameStreamer.framebuffer_path
  g_fan      \* the last fan-out of a worker (history)

sVars ==
  <<running, workers, spc, nStarts, clients, cpc, link, recv, fbfile, g_fan>>

\* The ADB forwarder for one accepted connection (src/server/src/main.rs).
VARIABLES
  peer,      \* per peer (client, adbd): "open", "closed" (it closed its end) or "reset"
  src,       \* per direction: the bytes the source peer has sent (history)
  rd,        \* per direction: how many of them the copy task has read
  dst,       \* per direction: the bytes written to the destination
  task,      \* per direction: the copy task: position, buf, n
  fpc        \* the thread running forward_adb_connection: position and route

aVars == <<peer, src, rd, dst, task, fpc>>

\* The start of the daemon's components (main, start_input_system,
\* GrallocServer::start, start_adb_forwarder).
VARIABLES
  comp,      \* per component: "starting", "serving", "failed" or "killed"
  daemon     \* the process: "up" or "exited"

bVars == <<comp, daemon>>

\* The threads of the daemon seen as users of its locks.
VARIABLES
  lth        \* per thread: the job it runs and how many steps of it are done

lVars == <<lth>>

restVars == <<aVars, bVars, lVars>>

vars ==
  <<mt, sender, lock, srv, nAcc, chan, enq, wire, sock, thr, nFail,
    pc, call, emitted, touchLog, nActs, gVars, sVars, restVars>>

inputVars ==
  <<mt, sender, lock, srv, nAcc, chan, enq, wire, sock, thr, nFail,
    pc, call, emitted, touchLog, nActs>>

srvVars == <<srv, nAcc, sock>>
prodVars == <<pc, call, emitted, touchLog, nActs>>

\* Connections to the gralloc socket, each with its worker thread.
Conns == {1, 2}

\* display_buffer_id = None.
NoneId == -1

\* GrallocRequest: the fields the handlers read, and two locals of the
\* handlers: the id that handle_allocate draws (its buffer_id) and the bytes
\* that handle_unlock_with_data reads from the stream (its data).  g_copied
\* records that handle_unlock_with_data copied them into an entry (history).
Request(command, buffer_id, width, height, format, size) ==
  [command |-> command, buffer_id |-> buffer_id, width |-> width,
   height |-> height, format |-> format, size |-> size, local |-> 0,
   data |-> <<>>, g_copied |-> FALSE]

\* GrallocResponse.
Response(status, buffer_id, width, height, stride, format, size) ==
  [status |-> status, buffer_id |-> buffer_id, width |-> width,
   height |-> height, stride |-> stride, format |-> format, size |-> size]

NoRequest == Request(0, 0, 0, 0, 0, 0)
NoResponse == Response(1, 0, 0, 0, 0, 0, 0)
NoStep == [conn |-> 0, command |-> 0, id |-> 0, phase |-> "none"]

\* FramebufferData::default().
EmptyCell == [data |-> <<>>, width |-> 0, height |-> 0, dirty |-> FALSE]

\* get_display_buffer() = None.
Absent == [some |-> FALSE, data |-> <<>>, width |-> 0, height |-> 0]

GInit ==
  /\ buffers = <<>>
  /\ next_buffer_id = 1
  /\ display_buffer_id = NoneId
  /\ callback = FALSE
  /\ cell = EmptyCell
  /\ gpc = [c \in Conns |-> "closed"]
  /\ greq = [c \in Conns |-> NoRequest]
  /\ inbox = [c \in Conns |-> <<>>]
  /\ reply = [c \in Conns |-> NoResponse]
  /\ pixels = [c \in Conns |-> <<>>]
  /\ gLast = NoStep
  /\ io = [c \in Conns |-> [got |-> 0, sent |-> 0]]
  /\ nReqs = 0

NoCall ==
  [dev |-> "none", action |-> -1, pid |-> 0, x |-> 0, y |-> 0, p |-> 0,
   keycode |-> 0, mtBefore |-> [i \in Slots |-> 0], fd |-> 0, serial |-> 0,
   enqBefore |-> 0]

Descriptor(d) == [kind |-> -1, code |-> 0, value |-> 0, g_dev |-> d]

\* Threads that call start() on the streamer, and control clients.
Starters == 1..NumStarters
Clients == 1..MaxClients

\* No frame packet has been written to the client.
NoPacket == [magic |-> "", width |-> 0, height |-> 0, length |-> 0, data |-> <<>>]

\* File::open(framebuffer_path) fails.
NoFile == [exists |-> FALSE, bytes |-> <<>>]

NoFan == [worker |-> 0, frame |-> <<>>, before |-> <<>>, tried |-> <<>>, ended |-> {}]

\* FrameStreamer::new: no client, not running; no worker, no control client.
SInit ==
  /\ running = FALSE
  /\ workers = <<>>
  /\ spc = [t \in Starters |-> "idle"]
  /\ nStarts = 0
  /\ clients = <<>>
  /\ cpc = [k \in Clients |-> "none"]
  /\ link = [k \in Clients |-> "up"]
  /\ recv = [k \in Clients |-> NoPacket]
  /\ fbfile = NoFile
  /\ g_fan = NoFan

\* The two ends of a forwarded connection, and the two copy tasks: the
\* task "up" copies from the client to adbd, "down" from adbd to the client.
Peers == {"client", "adbd"}
Dirs == {"up", "down"}
Source(d) == IF d = "up" THEN "client" ELSE "adbd"
Dest(d) == IF d = "up" THEN "adbd" ELSE "client"

\* let mut buf = [0u8; 8192], scaled to two bytes.
BUF_SIZE == 2

NoTask == [pc |-> "none", buf |-> [i \in 1..BUF_SIZE |-> 0], n |-> 0]

\* No connection has been accepted by the forwarder.
AInit ==
  /\ peer = [p \in Peers |-> "open"]
  /\ src = [d \in Dirs |-> <<>>]
  /\ rd = [d \in Dirs |-> 0]
  /\ dst = [d \in Dirs |-> <<>>]
  /\ task = [d \in Dirs |-> NoTask]
  /\ fpc = [pc |-> "idle", route |-> "none"]

\* The threads that take the daemon's locks: two gralloc workers, the
\* worker of the streamer, a control client thread, the thread that
\* installs the callback, two producers of input and the two acceptors.
LockThreads ==
  {"worker1", "worker2", "tick", "control", "install",
   "producer1", "producer2", "touch_server", "key_server"}

\* The thread runs no job and holds no lock.
Resting == [job |-> "none", at |-> 0]

LInit == lth = [t \in LockThreads |-> Resting]

\* The components of the daemon that bind a socket or listen on a port.
Components == {"touch", "key", "gralloc", "adb", "control"}

\* main has spawned the component threads and none has bound yet.
BInit ==
  /\ comp = [c \in Components |-> "starting"]
  /\ daemon = "up"

Init ==
  /\ mt = [i \in Slots |-> 0]
  /\ sender = [d \in Devices |-> 0]
  /\ lock = [d \in Devices |-> 0]
  /\ srv = [d \in Devices |-> "accept"]
  /\ nAcc = [d \in Devices |-> 0]
  /\ chan = [d \in Devices |-> [c \in Consumers |-> <<>>]]
  /\ enq = [d \in Devices |-> [c \in Consumers |-> <<>>]]
  /\ wire = [d \in Devices |-> [c \in Consumers |-> <<>>]]
  /\ sock = [d \in Devices |-> [c \in Consumers |-> "none"]]
  /\ thr = [d \in Devices |-> [c \in Consumers |-> "none"]]
  /\ nFail = [d \in Devices |-> [c \in Consumers |-> 0]]
  /\ pc = [q \in Producers |-> "idle"]
  /\ call = [q \in Producers |-> NoCall]
  /\ emitted = [q \in Producers |-> <<>>]
  /\ touchLog = <<>>
  /\ nActs = 0
  /\ GInit
  /\ SInit
  /\ AInit
  /\ BInit
  /\ LInit

(* ------------------------ handle_touch_event --------------------------- *)
\* Variant of TouchSlots: POINTER_UP / CANCEL leave the slot flag set.
TouchSlotsKeepOnPointerUp(action, pid, m) ==
  CASE action \in {ACTION_DOWN, ACTION_POINTER_DOWN} -> [m EXCEPT ![pid] = 1]
    [] action = ACTION_UP -> [i \in Slots |-> 0]
    [] OTHER -> m

\* Variant of TouchSlots: DOWN / POINTER_DOWN start from an empty table.
TouchSlotsDownResetsAll(action, pid, m) ==
  CASE action \in {ACTION_DOWN, ACTION_POINTER_DOWN} ->
         [i \in Slots |-> IF i = pid THEN 1 ELSE 0]
    [] action = ACTION_UP -> [i \in Slots |-> 0]
    [] action = ACTION_MOVE -> m
    [] action \in {ACTION_CANCEL, ACTION_POINTER_UP} -> [m EXCEPT ![pid] = 0]
    [] OTHER -> m

\* The slot table after the action.
TouchSlots(action, pid, m) ==
  CASE action \in {ACTION_DOWN, ACTION_POINTER_DOWN} -> [m EXCEPT ![pid] = 1]
    [] action = ACTION_UP -> [i \in Slots |-> 0]
    [] action = ACTION_MOVE -> m
    [] action \in {ACTION_CANCEL, ACTION_POINTER_UP} -> [m EXCEPT ![pid] = 0]
    [] OTHER -> m

\* The loop of ACTION_UP over index..MAX_POINTERS-1.
RECURSIVE UpEvents(_, _)
UpEvents(index, m) ==
  IF index >= MAX_POINTERS THEN <<>>
  ELSE (IF m[index] # 0
          THEN << InputEvent(EV_ABS, ABS_MT_SLOT, index),
                  InputEvent(EV_ABS, ABS_MT_TRACKING_ID, -1),
                  InputEvent(EV_SYN, SYN_REPORT, SYN_REPORT) >>
          ELSE <<>>) \o UpEvents(index + 1, m)

\* The sub-sequences of handle_touch_event, by arm.
DownEvents(pid, x, y, p, trackingId, withButtons) ==
  << InputEvent(EV_ABS, ABS_MT_SLOT, pid),
     InputEvent(EV_ABS, ABS_MT_TRACKING_ID, trackingId) >>
  \o (IF withButtons
        THEN << InputEvent(EV_KEY, BTN_TOUCH, BTN_DOWN),
                InputEvent(EV_KEY, BTN_TOOL_FINGER, BTN_DOWN) >>
        ELSE <<>>)
  \o << InputEvent(EV_ABS, ABS_MT_POSITION_X, F32AsI32(x)),
        InputEvent(EV_ABS, ABS_MT_POSITION_Y, F32AsI32(y)),
        InputEvent(EV_ABS, ABS_MT_PRESSURE, F32AsI32(p)),
        InputEvent(EV_SYN, SYN_REPORT, SYN_REPORT) >>

MoveEvents(pid, x, y, p) ==
  << InputEvent(EV_ABS, ABS_MT_SLOT, pid),
     InputEvent(EV_ABS, ABS_MT_POSITION_X, F32AsI32(x)),
     InputEvent(EV_ABS, ABS_MT_POSITION_Y, F32AsI32(y)),
     InputEvent(EV_ABS, ABS_MT_PRESSURE, F32AsI32(p)),
     InputEvent(EV_SYN, SYN_REPORT, SYN_REPORT) >>

PointerUpEvents(pid) ==
  << InputEvent(EV_ABS, ABS_MT_SLOT, pid),
     InputEvent(EV_ABS, ABS_MT_TRACKING_ID, -1),
     InputEvent(EV_SYN, SYN_REPORT, SYN_REPORT) >>

\* Variant of TouchEvents: the tracking id is the pointer id and the button
\* events are sent for every pointer.
TouchEventsButtonsAlways(action, pid, x, y, p, m) ==
  CASE action \in {ACTION_DOWN, ACTION_POINTER_DOWN} ->
         DownEvents(pid, x, y, p, pid, TRUE)
    [] action = ACTION_UP -> UpEvents(0, m)
    [] action = ACTION_MOVE -> IF m[pid] # 0 THEN MoveEvents(pid, x, y, p) ELSE <<>>
    [] action \in {ACTION_CANCEL, ACTION_POINTER_UP} ->
         IF m[pid] = 0 THEN <<>> ELSE PointerUpEvents(pid)
    [] OTHER -> <<>>

\* Variant of TouchEvents: MOVE and POINTER_UP / CANCEL do not test the slot.
TouchEventsNoSlotTest(action, pid, x, y, p, m) ==
  CASE action \in {ACTION_DOWN, ACTION_POINTER_DOWN} ->
         DownEvents(pid, x, y, p, pid + 1, pid = 0)
    [] action = ACTION_UP -> UpEvents(0, m)
    [] action = ACTION_MOVE -> MoveEvents(pid, x, y, p)
    [] action \in {ACTION_CANCEL, ACTION_POINTER_UP} -> PointerUpEvents(pid)
    [] OTHER -> <<>>

\* The events the action passes to input_event_write, in order; m is the
\* slot table when the action starts.
TouchEvents(action, pid, x, y, p, m) ==
  CASE action \in {ACTION_DOWN, ACTION_POINTER_DOWN} ->
         DownEvents(pid, x, y, p, pid + 1, pid = 0)
    [] action = ACTION_UP -> UpEvents(0, m)
    [] action = ACTION_MOVE -> IF m[pid] # 0 THEN MoveEvents(pid, x, y, p) ELSE <<>>
    [] action \in {ACTION_CANCEL, ACTION_POINTER_UP} ->
         IF m[pid] = 0 THEN <<>> ELSE PointerUpEvents(pid)
    [] OTHER -> <<>>

(* --------------------------- send_key_code ----------------------------- *)
KeyEvents(keycode) ==
  << InputEvent(EV_KEY, keycode, 1),
     InputEvent(EV_SYN, SYN_REPORT, SYN_REPORT),
     InputEvent(EV_KEY, keycode, 0) >>

\* The full event list of a call.
CallEvents(cl) ==
  IF cl.dev = "touch"
    THEN TouchEvents(cl.action, cl.pid, cl.x, cl.y, cl.p, cl.mtBefore)
    ELSE IF cl.dev = "key" THEN KeyEvents(cl.keycode) ELSE <<>>

(* ----------------------------- the mutex ------------------------------- *)
\* Variant of SenderLockFree: the sender is read without the mutex.
SenderLockIgnored(d) == TRUE

\* INPUT_SENDER.lock() / KEY_SENDER.lock() returns only when nobody holds it.
SenderLockFree(d) == lock[d] = 0

\* Some guest consumer of the device is connected.
Attached(d) == \E c \in Consumers : sock[d][c] = "open"

\* The consumer of the device's latest completed registration (0: none).
LatestRegistered(d) == IF srv[d] = "register" THEN nAcc[d] - 1 ELSE nAcc[d]

\* The i-th event of call cl on device d as it is put on the channel, with
\* its history tags: the call, the position in the call, the consumer
\* registered last when it is sent and whether a consumer is connected then.
Tagged(d, cl, ev, i) ==
  [kind |-> ev.kind, code |-> ev.code, value |-> ev.value,
   g_act |-> cl.serial, g_idx |-> i,
   g_reg |-> LatestRegistered(d), g_att |-> Attached(d)]

TaggedAll(d, cl, evs) == [i \in 1..Len(evs) |-> Tagged(d, cl, evs[i], i)]

\* tx.send(ev) fails, and the event is lost, when the Receiver was dropped
\* (the dispatch thread has left its loop).
ReceiverAlive(d, c) == thr[d][c] # "exited"

\* Events put on the device's channels so far.
RECURSIVE SumLen(_, _, _)
SumLen(f, d, c) == IF c = 0 THEN 0 ELSE Len(f[d][c]) + SumLen(f, d, c - 1)

TotalEnq(d) == SumLen(enq, d, MaxAccepts)

\* What the model remembers of a call: its arguments, the slot table, the
\* registered sender and the number of events enqueued when it started.
TouchCallRecord(action, pid, pt) ==
  [dev |-> "touch", action |-> action, pid |-> pid,
   x |-> pt.x, y |-> pt.y, p |-> pt.p, keycode |-> 0,
   mtBefore |-> mt, fd |-> sender["touch"], serial |-> nActs + 1,
   enqBefore |-> TotalEnq("touch")]

KeyCallRecord(keycode) ==
  [dev |-> "key", action |-> -1, pid |-> 0, x |-> 0, y |-> 0, p |-> 0,
   keycode |-> keycode, mtBefore |-> mt, fd |-> sender["key"],
   serial |-> nActs + 1, enqBefore |-> TotalEnq("key")]

(* ---------------------- producers, calls as one step ------------------- *)
\* handle_touch_event(action, pid, x, y, pressure) by producer q.
TouchCall(q, action, pid, pt) ==
  /\ pc[q] = "idle"
  /\ SenderLockFree("touch")
  /\ nActs' = nActs + 1
  /\ call' = [call EXCEPT ![q] = TouchCallRecord(action, pid, pt)]
  /\ IF sender["touch"] = 0
       THEN /\ emitted' = [emitted EXCEPT ![q] = <<>>]
            /\ UNCHANGED <<mt, touchLog, chan, enq>>
       ELSE LET c   == sender["touch"]
                evs == TouchEvents(action, pid, pt.x, pt.y, pt.p, mt)
                tev == TaggedAll("touch", TouchCallRecord(action, pid, pt), evs)
            IN  /\ mt' = TouchSlots(action, pid, mt)
                /\ touchLog' = Append(touchLog, <<action, pid>>)
                /\ emitted' = [emitted EXCEPT ![q] = evs]
                /\ IF ReceiverAlive("touch", c)
                     THEN /\ chan' = [chan EXCEPT !["touch"][c] = @ \o tev]
                          /\ enq' = [enq EXCEPT !["touch"][c] = @ \o tev]
                     ELSE UNCHANGED <<chan, enq>>
  /\ UNCHANGED <<sender, lock, wire, thr, nFail, srvVars, pc, gVars, sVars, restVars>>

\* send_key_code(keycode) by producer q.
KeyCall(q, keycode) ==
  /\ pc[q] = "idle"
  /\ SenderLockFree("key")
  /\ nActs' = nActs + 1
  /\ call' = [call EXCEPT ![q] = KeyCallRecord(keycode)]
  /\ IF sender["key"] = 0
       THEN /\ emitted' = [emitted EXCEPT ![q] = <<>>]
            /\ UNCHANGED <<chan, enq>>
       ELSE LET c   == sender["key"]
                evs == KeyEvents(keycode)
                tev == TaggedAll("key", KeyCallRecord(keycode), evs)
            IN  /\ emitted' = [emitted EXCEPT ![q] = evs]
                /\ IF ReceiverAlive("key", c)
                     THEN /\ chan' = [chan EXCEPT !["key"][c] = @ \o tev]
                          /\ enq' = [enq EXCEPT !["key"][c] = @ \o tev]
                     ELSE UNCHANGED <<chan, enq>>
  /\ UNCHANGED <<mt, touchLog, sender, lock, wire, thr, nFail, srvVars, pc, gVars, sVars, restVars>>

(* ------------- producers, one input_event_write per step --------------- *)
\* handle_touch_event up to its first input_event_write: take INPUT_SENDER,
\* test it, take G_INPUT_MT and update the slot table.  G_INPUT_MT is only
\* ever taken inside INPUT_SENDER, so the slot updates of one call are not
\* observable one by one.  A call that writes nothing returns in this step.
TouchBegin(q, action, pid, pt) ==
  /\ pc[q] = "idle"
  /\ SenderLockFree("touch")
  /\ nActs' = nActs + 1
  /\ emitted' = [emitted EXCEPT ![q] = <<>>]
  /\ call' = [call EXCEPT ![q] = TouchCallRecord(action, pid, pt)]
  /\ IF sender["touch"] = 0
       THEN UNCHANGED <<mt, lock, pc, touchLog>>
       ELSE /\ mt' = TouchSlots(action, pid, mt)
            /\ touchLog' = Append(touchLog, <<action, pid>>)
            /\ IF TouchEvents(action, pid, pt.x, pt.y, pt.p, mt) = <<>>
                 THEN UNCHANGED <<lock, pc>>
                 ELSE /\ lock' = [lock EXCEPT !["touch"] = q]
                      /\ pc' = [pc EXCEPT ![q] = "touch"]
  /\ UNCHANGED <<sender, chan, enq, wire, thr, nFail, srvVars, gVars, sVars, restVars>>

\* One input_event_write of the call in progress: tx.send(ev), its error
\* ignored.  After the last write the call returns and releases the mutex.
Send(q) ==
  /\ pc[q] = "touch"
  /\ LET d    == call[q].dev
         c    == call[q].fd
         full == CallEvents(call[q])
         i    == Len(emitted[q]) + 1
         tev  == Tagged(d, call[q], full[i], i)
     IN  /\ emitted' = [emitted EXCEPT ![q] = Append(@, full[i])]
         /\ IF ReceiverAlive(d, c)
              THEN /\ chan' = [chan EXCEPT ![d][c] = Append(@, tev)]
                   /\ enq' = [enq EXCEPT ![d][c] = Append(@, tev)]
              ELSE UNCHANGED <<chan, enq>>
         /\ IF i = Len(full)
              THEN /\ pc' = [pc EXCEPT ![q] = "idle"]
                   /\ lock' = [lock EXCEPT ![d] = 0]
              ELSE UNCHANGED <<pc, lock>>
  /\ UNCHANGED <<mt, sender, wire, thr, nFail, srvVars, call, touchLog, nActs, gVars, sVars, restVars>>

(* --------------------------- device servers ---------------------------- *)
\* Connections accepted so far, on both devices.
TotalAccepts == nAcc["touch"] + nAcc["key"]

\* Variant of FirstBytes: nothing is written at accept.
FirstBytesNone(d) == <<>>

\* What the server writes to a stream it has just accepted.
FirstBytes(d) == <<Descriptor(d)>>

\* listener.incoming() yields a stream and the descriptor is written to it.
\* (A guest that goes away does so by CloseSock, after the descriptor.)
Accept(d) ==
  /\ srv[d] = "accept"
  /\ LET c == nAcc[d] + 1
     IN  /\ sock' = [sock EXCEPT ![d][c] = "open"]
         /\ wire' = [wire EXCEPT ![d][c] = FirstBytes(d)]
  /\ nAcc' = [nAcc EXCEPT ![d] = @ + 1]
  /\ srv' = [srv EXCEPT ![d] = "register"]
  /\ UNCHANGED <<mt, sender, lock, chan, enq, thr, nFail, prodVars, gVars, sVars, restVars>>

\* Variant of NewChannel: one channel made before the accept loop, so that
\* a new consumer inherits what is still queued.
NewChannelKeepsBacklog(d) == IF sender[d] = 0 THEN <<>> ELSE chan[d][sender[d]]

\* The queue of a channel just made by channel::<input_event>().
NewChannel(d) == <<>>

\* Variant of RegisteredSender: the sender is stored only while it is None.
RegisteredSenderFirstOnly(d, c) == IF sender[d] = 0 THEN c ELSE sender[d]

\* The consumer whose Sender is stored in the global: Some(tx) of the
\* channel just made for consumer c, whatever was stored before.
RegisteredSender(d, c) == c

\* channel(); *SENDER.lock().unwrap() = Some(tx); thread::spawn(dispatch).
Register(d) ==
  /\ srv[d] = "register"
  /\ SenderLockFree(d)
  /\ LET c == nAcc[d]
     IN  /\ chan' = [chan EXCEPT ![d][c] = NewChannel(d)]
         /\ sender' = [sender EXCEPT ![d] = RegisteredSender(d, c)]
         /\ thr' = [thr EXCEPT ![d][c] = "running"]
  /\ srv' = [srv EXCEPT ![d] = "accept"]
  /\ UNCHANGED <<mt, lock, nAcc, enq, wire, sock, nFail, prodVars, gVars, sVars, restVars>>

\* The guest consumer closes its end of the socket.
CloseSock(d, c) ==
  /\ sock[d][c] = "open"
  /\ sock' = [sock EXCEPT ![d][c] = "closed"]
  /\ UNCHANGED <<mt, sender, lock, srv, nAcc, chan, enq, wire, thr, nFail, prodVars, gVars, sVars, restVars>>

(* --------------------------- dispatch threads -------------------------- *)
\* Variant of RecvIndex: the newest queued event is taken.
RecvIndexNewest(queue) == Len(queue)

\* rx.recv() returns the oldest queued event.
RecvIndex(queue) == 1

RemoveAt(queue, k) ==
  SubSeq(queue, 1, k - 1) \o SubSeq(queue, k + 1, Len(queue))

\* Whether the dispatch loop of the device leaves on a failed write_all
\* (key_server: break; touch_server: result ignored).
BreaksOnWriteError(d) == d = "key"

\* Whether the dispatch loop of the device leaves when recv() fails
\* (key_server: break; touch_server: loops again).
BreaksOnRecvError(d) == d = "key"

\* recv() of one event and stream.write_all of its bytes.
Dispatch(d, c) ==
  /\ thr[d][c] = "running"
  /\ chan[d][c] # <<>>
  /\ LET k  == RecvIndex(chan[d][c])
         ev == chan[d][c][k]
     IN  IF sock[d][c] = "open"
           THEN /\ wire' = [wire EXCEPT ![d][c] = Append(@, ev)]
                /\ chan' = [chan EXCEPT ![d][c] = RemoveAt(@, k)]
                /\ UNCHANGED <<thr, nFail>>
           ELSE /\ nFail' = [nFail EXCEPT ![d][c] = @ + 1]
                /\ IF BreaksOnWriteError(d)
                     THEN /\ thr' = [thr EXCEPT ![d][c] = "exited"]
                          /\ chan' = [chan EXCEPT ![d][c] = <<>>]
                     ELSE /\ chan' = [chan EXCEPT ![d][c] = RemoveAt(@, k)]
                          /\ UNCHANGED thr
                /\ UNCHANGED wire
  /\ UNCHANGED <<mt, sender, lock, enq, srvVars, prodVars, gVars, sVars, restVars>>

\* recv() on an empty channel whose Sender was dropped (replaced by a later
\* accept) returns Err.  The key thread then leaves its loop.  The touch
\* thread calls recv() again and gets Err again, for ever: that changes
\* nothing in the state, so it has no step here.
Disconnected(d, c) ==
  /\ BreaksOnRecvError(d)
  /\ thr[d][c] = "running"
  /\ chan[d][c] = <<>>
  /\ sender[d] # c
  /\ \A q \in Producers : ~(pc[q] # "idle" /\ call[q].dev = d /\ call[q].fd = c)
  /\ thr' = [thr EXCEPT ![d][c] = "exited"]
  /\ UNCHANGED <<mt, sender, lock, chan, enq, wire, nFail, srvVars, prodVars, gVars, sVars, restVars>>

(* ---------------------------- specifications --------------------------- *)
\* What the producer of Spec sends: a second finger going down and up, and
\* key taps.
TapActions == {ACTION_POINTER_DOWN, ACTION_POINTER_UP}

\* The calls and connections of Spec are bounded each and together.
MoreCalls == nActs < MaxActions /\ nActs + TotalAccepts < MaxEvents
MoreAccepts == TotalAccepts < MaxAccepts /\ nActs + TotalAccepts < MaxEvents

Next ==
  \/ /\ MoreCalls
     /\ \E action \in TapActions, pt \in TouchPoints : TouchCall(1, action, 1, pt)
  \/ /\ MoreCalls
     /\ \E keycode \in KeyCodes : KeyCall(1, keycode)
  \/ /\ MoreAccepts
     /\ \E d \in Devices : Accept(d)
  \/ \E d \in Devices : Register(d)
  \/ \E d \in Devices, c \in Consumers : CloseSock(d, c)
  \/ \E d \in Devices, c \in Consumers : Dispatch(d, c)
  \/ \E d \in Devices, c \in Consumers : Disconnected(d, c)

Spec == Init /\ [][Next]_vars

NextTouch ==
  \/ /\ nActs < MaxTouchActions
     /\ \E action \in TouchActions, pid \in PointerIds, pt \in TouchPoints :
          TouchCall(1, action, pid, pt)
  \/ /\ TotalAccepts = 0
     /\ Accept("touch")
  \/ Register("touch")

SpecTouch == Init /\ [][NextTouch]_vars

NextSteps ==
  \/ /\ nActs < MaxActions
     /\ \E q \in Producers, action \in TouchActions, pt \in TouchPoints :
          TouchBegin(q, action, 0, pt)
  \/ \E q \in Producers : Send(q)
  \/ /\ TotalAccepts < MaxAccepts
     /\ Accept("touch")
  \/ Register("touch")

SpecSteps == Init /\ [][NextSteps]_vars

(* ======================= properties of the handler ===================== *)
\* The call of the producer of Spec and SpecTouch, when it was a touch call
\* that found a sender registered.
LastTouch == call[1]
TouchProcessed == LastTouch.dev = "touch" /\ LastTouch.fd # 0

NoSlot == [i \in Slots |-> 0]
OnlySlot(j) == [i \in Slots |-> IF i = j THEN 1 ELSE 0]

IsDownAction(a) == a \in {ACTION_DOWN, ACTION_POINTER_DOWN}
IsUpAction(a) == a \in {ACTION_UP, ACTION_CANCEL, ACTION_POINTER_UP}

\* Number of entries of the log among the first n that satisfy Test(_, i).
RECURSIVE CountLog(_, _, _)
CountLog(n, i, down) ==
  IF n = 0 THEN 0
  ELSE CountLog(n - 1, i, down)
       + (IF /\ touchLog[n][2] = i
             /\ (IF down THEN IsDownAction(touchLog[n][1])
                         ELSE IsUpAction(touchLog[n][1]))
            THEN 1 ELSE 0)

Downs(i) == CountLog(Len(touchLog), i, TRUE)
Ups(i) == CountLog(Len(touchLog), i, FALSE)

\* The log entries that decide slot i: DOWN / POINTER_DOWN / POINTER_UP /
\* CANCEL naming i, and UP whatever pointer it names.
Decides(e, i) ==
  \/ e[1] = ACTION_UP
  \/ e[1] \in {ACTION_DOWN, ACTION_POINTER_DOWN, ACTION_CANCEL, ACTION_POINTER_UP} /\ e[2] = i

LastDeciderIsDown(i) ==
  \E n \in 1..Len(touchLog) :
    /\ Decides(touchLog[n], i)
    /\ IsDownAction(touchLog[n][1])
    /\ \A k \in (n + 1)..Len(touchLog) : ~Decides(touchLog[k], i)

\* C1 as stated: after any sequence of touch actions processed while a
\* sender is registered, slot i is active iff the DOWN / POINTER_DOWN on i
\* outnumber the UP / CANCEL / POINTER_UP on i.
C1_ActiveIffDownsExceedUps ==
  \A i \in Slots : (mt[i] # 0) <=> (Downs(i) > Ups(i))

\* C1 amended: slot i is active iff the last action that decides slot i
\* (DOWN / POINTER_DOWN / POINTER_UP / CANCEL naming i, or UP with any
\* pointer id) was a DOWN or POINTER_DOWN.
C1_ActiveIffLastDeciderIsDown ==
  \A i \in Slots : (mt[i] # 0) <=> LastDeciderIsDown(i)

C1_Witness ==
  /\ Len(touchLog) = MaxTouchActions
  /\ \E i, j \in Slots : mt[i] # 0 /\ mt[j] = 0 /\ Downs(j) > Ups(j)

\* C2 as stated: after UP and after CANCEL no slot is active, whatever
\* pointer id was given, and the release triple ABS_MT_SLOT=i,
\* ABS_MT_TRACKING_ID=-1, SYN_REPORT was emitted for each slot i that was
\* active.
C2_UpAndCancelClearEverySlot ==
  (TouchProcessed /\ LastTouch.action \in {ACTION_UP, ACTION_CANCEL})
    => /\ mt = NoSlot
       /\ emitted[1] = UpEvents(0, LastTouch.mtBefore)

\* C3: from an empty slot table, DOWN / POINTER_DOWN of pointer pid emits
\* SLOT=pid, TRACKING_ID=pid+1, the two button events iff pid = 0, X, Y,
\* PRESSURE (the f32 arguments truncated to i32), SYN_REPORT; the UP that
\* follows emits SLOT=pid, TRACKING_ID=-1, SYN_REPORT; nothing else reaches
\* the channel (11 events for pid = 0, 9 otherwise).
C3_TapSequence ==
  /\ (TouchProcessed /\ IsDownAction(LastTouch.action) /\ LastTouch.mtBefore = NoSlot)
       => /\ emitted[1] =
               << [kind |-> 3, code |-> 47, value |-> LastTouch.pid],
                  [kind |-> 3, code |-> 57, value |-> LastTouch.pid + 1] >>
               \o (IF LastTouch.pid = 0
                     THEN << [kind |-> 1, code |-> 330, value |-> 108],
                             [kind |-> 1, code |-> 325, value |-> 108] >>
                     ELSE <<>>)
               \o << [kind |-> 3, code |-> 53, value |-> F32AsI32(LastTouch.x)],
                     [kind |-> 3, code |-> 54, value |-> F32AsI32(LastTouch.y)],
                     [kind |-> 3, code |-> 58, value |-> F32AsI32(LastTouch.p)],
                     [kind |-> 0, code |-> 0, value |-> 0] >>
          /\ mt = OnlySlot(LastTouch.pid)
  /\ \A j \in Slots :
       (TouchProcessed /\ LastTouch.action = ACTION_UP /\ LastTouch.mtBefore = OnlySlot(j))
         => emitted[1] = << [kind |-> 3, code |-> 47, value |-> j],
                            [kind |-> 3, code |-> 57, value |-> -1],
                            [kind |-> 0, code |-> 0, value |-> 0] >>
  /\ (/\ Len(touchLog) = 2
      /\ IsDownAction(touchLog[1][1])
      /\ touchLog[2][1] = ACTION_UP)
       => TotalEnq("touch") = (IF touchLog[1][2] = 0 THEN 11 ELSE 9)

\* The tap of the scenario: DOWN(0, 100.5, 200.0, 50.5) then UP, all eleven
\* events on the channel of the first consumer.
C3_Witness ==
  /\ touchLog = << <<ACTION_DOWN, 0>>, <<ACTION_UP, 0>> >>
  /\ [n \in 1..Len(enq["touch"][1]) |->
        <<enq["touch"][1][n].kind, enq["touch"][1][n].code, enq["touch"][1][n].value>>]
       = << <<3, 47, 0>>, <<3, 57, 1>>, <<1, 330, 108>>, <<1, 325, 108>>,
            <<3, 53, 100>>, <<3, 54, 200>>, <<3, 58, 50>>, <<0, 0, 0>>,
            <<3, 47, 0>>, <<3, 57, -1>>, <<0, 0, 0>> >>

\* C4: DOWN, POINTER_DOWN and POINTER_UP leave every slot other than the
\* named one as it was.
C4_OtherSlotsUntouched ==
  (/\ LastTouch.dev = "touch"
   /\ LastTouch.action \in {ACTION_DOWN, ACTION_POINTER_DOWN, ACTION_POINTER_UP})
    => \A j \in Slots : j # LastTouch.pid => mt[j] = LastTouch.mtBefore[j]

C4_Witness ==
  /\ TouchProcessed
  /\ LastTouch.action = ACTION_POINTER_DOWN
  /\ LastTouch.pid = 1
  /\ LastTouch.mtBefore = OnlySlot(0)
  /\ mt[0] = 1 /\ mt[1] = 1

\* C5: MOVE leaves the slot table as it was; MOVE and POINTER_UP naming an
\* inactive slot emit nothing, put nothing on the channel and leave the slot
\* table as it was.
C5_MoveAndInactivePointerUp ==
  /\ (LastTouch.dev = "touch" /\ LastTouch.action = ACTION_MOVE)
       => mt = LastTouch.mtBefore
  /\ (/\ LastTouch.dev = "touch"
      /\ LastTouch.action \in {ACTION_MOVE, ACTION_POINTER_UP}
      /\ LastTouch.mtBefore[LastTouch.pid] = 0)
       => /\ emitted[1] = <<>>
          /\ TotalEnq("touch") = LastTouch.enqBefore
          /\ mt = LastTouch.mtBefore

C5_Witness ==
  /\ TouchProcessed
  /\ LastTouch.action = ACTION_MOVE
  /\ LastTouch.pid = 1
  /\ LastTouch.mtBefore = OnlySlot(0)
  /\ mt = OnlySlot(0)
  /\ TotalEnq("touch") = 8

(* ================= properties of channels and consumers ================ *)
IsSyn(e) == e.kind = 0 /\ e.code = 0 /\ e.value = 0

\* An event without its history tags.
Plain(e) == [kind |-> e.kind, code |-> e.code, value |-> e.value]

\* The events of call number a in a channel history, in channel order.
EventsOfCall(h, a) ==
  LET OfCall(e) == e.g_act = a
      sel == SelectSeq(h, OfCall)
  IN  [n \in 1..Len(sel) |-> Plain(sel[n])]

\* C6: with several producers in handle_touch_event at once, the events of
\* one call lie on the channel next to each other, in the order the handler
\* lists them and with no event of another call between them, and every
\* sub-sequence ends with SYN_REPORT (a sub-sequence that does not yet end
\* with SYN_REPORT belongs to a call still in progress).
C6_CallsDoNotInterleave ==
  /\ \A c \in Consumers :
       LET h == enq["touch"][c]
       IN  \A n \in 1..Len(h) :
             /\ IF n = 1 \/ h[n - 1].g_act # h[n].g_act
                  THEN h[n].g_idx = 1
                  ELSE h[n].g_idx = h[n - 1].g_idx + 1
             /\ \A k \in 1..(n - 1) :
                  h[k].g_act = h[n].g_act
                    => \A j \in k..n : h[j].g_act = h[n].g_act
             /\ (n < Len(h) /\ h[n + 1].g_act # h[n].g_act) => IsSyn(h[n])
             /\ (n = Len(h) /\ ~IsSyn(h[n]))
                  => \E q \in Producers :
                       pc[q] = "touch" /\ call[q].serial = h[n].g_act
  /\ \A q \in Producers :
       (call[q].dev = "touch" /\ call[q].fd # 0)
         => /\ EventsOfCall(enq["touch"][call[q].fd], call[q].serial) = emitted[q]
            /\ pc[q] = "idle" => emitted[q] = CallEvents(call[q])
            /\ (pc[q] = "idle" /\ emitted[q] # <<>>)
                 => IsSyn(emitted[q][Len(emitted[q])])

\* Producer 1 is in the middle of a call, on the channel that already holds
\* a complete call of producer 2.
C6_Witness ==
  /\ pc[1] = "touch"
  /\ Len(emitted[1]) >= 1
  /\ pc[2] = "idle"
  /\ call[2].dev = "touch"
  /\ call[2].fd = call[1].fd
  /\ Len(emitted[2]) >= 3
  /\ srv["touch"] = "register"

\* What the consumer socket received after the descriptor, which is the
\* first item on the wire.
WireEvents(d, c) == IF wire[d][c] = <<>> THEN <<>> ELSE Tail(wire[d][c])

IsPrefixOf(s, t) == Len(s) <= Len(t) /\ SubSeq(t, 1, Len(s)) = s
IsSuffixOf(s, t) == Len(s) <= Len(t) /\ SubSeq(t, Len(t) - Len(s) + 1, Len(t)) = s

\* C7: on both devices, what a consumer received is a prefix of what was
\* put on its channel, in the same order and without repetition, and what is
\* still queued is the end of it.
C7_DeliveredInEnqueueOrder ==
  \A d \in Devices, c \in Consumers :
    /\ IsPrefixOf(WireEvents(d, c), enq[d][c])
    /\ IsSuffixOf(chan[d][c], enq[d][c])
    /\ Len(WireEvents(d, c)) + Len(chan[d][c]) <= Len(enq[d][c])

C7_Witness ==
  /\ Len(WireEvents("touch", 1)) >= 2
  /\ chan["touch"][1] # <<>>
  /\ Len(WireEvents("key", 1)) >= 2
  /\ chan["key"][1] # <<>>

\* C8: the device's sender always belongs to the consumer registered last;
\* every event is queued for, and delivered to, the consumer that was the
\* last one registered when the event was produced, and no event reaches two
\* consumers.
C8_OnlyLatestConsumer ==
  \A d \in Devices :
    /\ sender[d] = LatestRegistered(d)
    /\ \A c \in Consumers :
         /\ \A n \in 1..Len(enq[d][c]) : enq[d][c][n].g_reg = c
         /\ \A n \in 1..Len(chan[d][c]) : chan[d][c][n].g_reg = c
         /\ \A n \in 2..Len(wire[d][c]) : wire[d][c][n].g_reg = c
    /\ \A c1, c2 \in Consumers :
         \A n1 \in 2..Len(wire[d][c1]), n2 \in 2..Len(wire[d][c2]) :
           (/\ wire[d][c1][n1].g_act = wire[d][c2][n2].g_act
            /\ wire[d][c1][n1].g_idx = wire[d][c2][n2].g_idx)
             => (c1 = c2 /\ n1 = n2)

\* Two consumers of one device have each received events, the second after
\* it replaced the first.
C8_Witness ==
  \E d \in Devices :
    /\ Len(WireEvents(d, 1)) >= 1
    /\ Len(WireEvents(d, 2)) >= 1
    /\ sender[d] = 2

\* C9 as stated: whenever no consumer is connected to a device, the device's
\* sender is None.
C9_SenderAbsentWhenDetached ==
  \A d \in Devices : ~Attached(d) => sender[d] = 0

\* C9 amended: before the first registration the sender is None and a call
\* sends nothing; from then on the sender stays registered, also after its
\* consumer has gone, until the next accept replaces it; an event produced
\* while no consumer is connected is never delivered to any consumer.
C9_DetachedEventsNeverDelivered ==
  /\ \A d \in Devices :
       /\ (LatestRegistered(d) = 0) <=> (sender[d] = 0)
       /\ LatestRegistered(d) = 0 => TotalEnq(d) = 0
       /\ \A c \in Consumers :
            \A n \in 2..Len(wire[d][c]) : wire[d][c][n].g_att
  /\ call[1].fd = 0 => emitted[1] = <<>>

\* Events were produced while the first consumer was gone and were lost; the
\* second consumer has received events produced later.
C9_Witness ==
  \E d \in Devices :
    /\ sock[d][1] = "closed"
    /\ \E n \in 1..Len(enq[d][1]) : ~enq[d][1][n].g_att
    /\ nFail[d][1] > 0
    /\ Len(WireEvents(d, 2)) >= 1

\* C10: on both devices, a dispatch thread whose write to the consumer
\* socket failed has left its loop.
C10_WriteFailureEndsSession ==
  \A d \in Devices, c \in Consumers :
    nFail[d][c] > 0 => thr[d][c] = "exited"

IsDescriptor(e) == e.kind = -1

\* C11: on both devices, the bytes a consumer has received start with the
\* device's descriptor and hold no second descriptor: the descriptor is
\* written once, at accept, before any event; a stream that was not
\* accepted has received nothing.
C11_DescriptorOnceAndFirst ==
  \A d \in Devices, c \in Consumers :
    IF sock[d][c] = "none"
      THEN wire[d][c] = <<>>
      ELSE /\ Len(wire[d][c]) >= 1
           /\ wire[d][c][1] = Descriptor(d)
           /\ \A n \in 2..Len(wire[d][c]) : ~IsDescriptor(wire[d][c][n])

\* Two consumers of the key device, one after the other, each received the
\* descriptor and then events.
C11_Witness ==
  /\ Len(wire["key"][1]) >= 2
  /\ Len(wire["key"][2]) >= 2
  /\ IsDescriptor(wire["key"][2][1])

\* C12 as stated: every EV_KEY event put on the channel of the key device
\* by a completed send_key_code is directly followed by SYN_REPORT, and a
\* key tap emits four events: key down, SYN_REPORT, key up, SYN_REPORT.
C12_EveryKeyEventFollowedBySyn ==
  /\ \A c \in Consumers :
       LET h == enq["key"][c]
       IN  \A n \in 1..Len(h) :
             h[n].kind = EV_KEY => (n < Len(h) /\ IsSyn(h[n + 1]))
  /\ (call[1].dev = "key" /\ call[1].fd # 0)
       => /\ Len(emitted[1]) = 4
          /\ IsSyn(emitted[1][2])
          /\ IsSyn(emitted[1][4])

(* ================== faults inside an input operation =================== *)
\* lock[d] after a thread panicked while it held the device's sender mutex:
\* the mutex is poisoned, lock() returns Err from then on.
Poisoned == -1

SenderLockPoisoned(d) == lock[d] = Poisoned

\* The arms of handle_touch_event that index the slot table with pointer_id.
IndexesSlot(action) ==
  action \in {ACTION_DOWN, ACTION_POINTER_DOWN, ACTION_MOVE,
              ACTION_CANCEL, ACTION_POINTER_UP}

\* mt[pointer_id as usize] is out of bounds (a negative id converts to a
\* huge usize): the index panics.
OutOfBounds(pid) == pid < 0 \/ pid >= MAX_POINTERS

\* Pointer ids as handle_input_event passes them on: any i32 of the client.
AnyPointerIds == {0, MAX_POINTERS, -1}

FaultActions == {ACTION_DOWN, ACTION_UP, ACTION_MOVE}

\* The call of a thread that panics: nothing is sent, the thread is gone.
PanickedCall(q, action, pid, pt) ==
  /\ pc[q] = "idle"
  /\ nActs' = nActs + 1
  /\ call' = [call EXCEPT ![q] = TouchCallRecord(action, pid, pt)]
  /\ emitted' = [emitted EXCEPT ![q] = <<>>]
  /\ pc' = [pc EXCEPT ![q] = "panicked"]

\* handle_touch_event(action, pid, x, y, pressure) for any pointer_id.
\*  - INPUT_SENDER.lock().unwrap() panics when the mutex is poisoned;
\*  - with a sender present, an arm that indexes the slot table with an
\*    out-of-bounds pointer_id panics before it writes anything, while the
\*    guards of INPUT_SENDER and G_INPUT_MT are held: both get poisoned;
\*  - otherwise the call is TouchCall.
TouchCallUnchecked(q, action, pid, pt) ==
  IF SenderLockPoisoned("touch")
    THEN /\ PanickedCall(q, action, pid, pt)
         /\ UNCHANGED <<mt, sender, lock, chan, enq, wire, thr, nFail, srvVars, touchLog, gVars, sVars, restVars>>
    ELSE IF sender["touch"] # 0 /\ IndexesSlot(action) /\ OutOfBounds(pid)
      THEN /\ SenderLockFree("touch")
           /\ PanickedCall(q, action, pid, pt)
           /\ lock' = [lock EXCEPT !["touch"] = Poisoned]
           /\ UNCHANGED <<mt, sender, chan, enq, wire, thr, nFail, srvVars, touchLog, gVars, sVars, restVars>>
      ELSE TouchCall(q, action, pid, pt)

\* The registration step of the server thread for any state of the mutex:
\* *SENDER.lock().unwrap() = Some(tx) panics when the mutex is poisoned, and
\* the server thread, with its listener, is gone.
RegisterUnchecked(d) ==
  IF SenderLockPoisoned(d)
    THEN /\ srv[d] = "register"
         /\ srv' = [srv EXCEPT ![d] = "dead"]
         /\ UNCHANGED <<mt, sender, lock, nAcc, chan, enq, wire, sock, thr, nFail, prodVars, gVars, sVars, restVars>>
    ELSE Register(d)

NextFault ==
  \/ /\ nActs < MaxActions
     /\ \E q \in Producers, action \in FaultActions, pid \in AnyPointerIds,
           pt \in TouchPoints :
          TouchCallUnchecked(q, action, pid, pt)
  \/ /\ TotalAccepts < MaxAccepts
     /\ Accept("touch")
  \/ RegisterUnchecked("touch")
  \/ \E c \in Consumers : Dispatch("touch", c)

SpecFault == Init /\ [][NextFault]_vars

\* C13 as stated: a fault in one touch operation does not disable the
\* device: only a call that is itself faulty (an out-of-bounds pointer id in
\* an arm that indexes the slot table) ends in a panic, every other call is
\* processed, and the server thread goes on accepting and registering
\* consumers.
C13_FaultDoesNotDisableDevice ==
  /\ \A q \in Producers :
       pc[q] = "panicked"
         => (IndexesSlot(call[q].action) /\ OutOfBounds(call[q].pid))
  /\ srv["touch"] # "dead"

(* ============================ gralloc server =========================== *)
\* GrallocServer::new(socket_path, width, height): the default dimensions.
DefaultWidth == 1
DefaultHeight == 1

\* Ids a request can name: those Allocate hands out within the bound,
\* before and after it has done so.
BufferIds == 1..MaxBuffers

\* (width, height, format) of Allocate requests: 1x1 RGB565, and all zero,
\* which selects the default dimensions and, the format being unknown,
\* RGBA8888.
AllocShapes == { [w |-> 1, h |-> 1, f |-> RGB565], [w |-> 0, h |-> 0, f |-> 0] }

\* Commands without an arm of their own in handle_gralloc_client.
OtherCommands == {CMD_IMPORT_BUFFER, 8}

\* PixelFormat::bytes_per_pixel.
BytesPerPixel(f) ==
  CASE f \in {RGBA8888, RGBX8888, BGRA8888} -> 4
    [] f = RGB888 -> 3
    [] f = RGB565 -> 2

\* PixelFormat::from_u32(v).unwrap_or(PixelFormat::Rgba8888).
PixelFormatOrDefault(v) == IF v \in RGBA8888..BGRA8888 THEN v ELSE RGBA8888

Zeros(n) == [i \in 1..n |-> 0]

\* GrallocBuffer::new.  g_reply will hold the response of the Allocate that
\* made the buffer, g_unlocks the payloads copied into it.
NewBuffer(id, width, height, format) ==
  [id |-> id, width |-> width, height |-> height, format |-> format,
   stride |-> width, data |-> Zeros(width * height * BytesPerPixel(format)),
   g_reply |-> NoResponse, g_unlocks |-> <<>>]

\* HashMap operations on the buffer table.
Has(table, id) == id \in DOMAIN table
Insert(table, id, buf) ==
  [i \in (DOMAIN table) \cup {id} |-> IF i = id THEN buf ELSE table[i]]
Remove(table, id) == [i \in (DOMAIN table) \ {id} |-> table[i]]

\* buffer.data[..copy_len].copy_from_slice(&data[..copy_len]).
CopyPrefix(old, new) ==
  LET copy_len == IF Len(new) < Len(old) THEN Len(new) ELSE Len(old)
  IN  [i \in 1..Len(old) |-> IF i <= copy_len THEN new[i] ELSE old[i]]

\* The payload a client sends after an Unlock header: size bytes.
Payload(size, tag) == [i \in 1..size |-> 10 * tag + i]

Step(c, command, id, phase) ==
  [conn |-> c, command |-> command, id |-> id, phase |-> phase]

Failure(buffer_id) == Response(-1, buffer_id, 0, 0, 0, 0, 0)
Success(buffer_id) == Response(0, buffer_id, 0, 0, 0, 0, 0)
Describe(buf) ==
  Response(0, buf.id, buf.width, buf.height, buf.stride, buf.format, Len(buf.data))

\* The worker of connection c is at the top of its loop and its read_exact
\* of a request header gets the header the client sends now: no earlier
\* byte of the stream is unread.
AtHeader(c) == gpc[c] = "idle" /\ inbox[c] = <<>>

\* The history of connection c after its worker has read a header and
\* written n responses, and after it has written n responses.
Got(c, n) == [io EXCEPT ![c] = [got |-> @.got + 1, sent |-> @.sent + n]]
Sent(c, n) == [io EXCEPT ![c] = [got |-> @.got, sent |-> @.sent + n]]

\* listener.incoming() yields a stream and a worker is spawned for it.
Connect(c) ==
  /\ gpc[c] = "closed"
  /\ gpc' = [gpc EXCEPT ![c] = "idle"]
  /\ UNCHANGED io
  /\ UNCHANGED <<buffers, next_buffer_id, display_buffer_id, callback, cell,
                 greq, inbox, reply, pixels, gLast, nReqs>>
  /\ UNCHANGED <<inputVars, sVars, restVars>>

\* The client closes the connection; read_exact returns UnexpectedEof and
\* the worker leaves its loop.
Disconnect(c) ==
  /\ AtHeader(c)
  /\ gpc' = [gpc EXCEPT ![c] = "done"]
  /\ gLast' = Step(c, 0, 0, "eof")
  /\ UNCHANGED io
  /\ UNCHANGED <<buffers, next_buffer_id, display_buffer_id, callback, cell,
                 greq, inbox, reply, pixels, nReqs>>
  /\ UNCHANGED <<inputVars, sVars, restVars>>

\* Variant of FetchAdd: the counter is read and not advanced.
FetchAddNothing(n) == n

\* The counter after next_id.fetch_add(1).
FetchAdd(n) == n + 1

\* handle_allocate up to next_id.fetch_add(1).
AllocateFetch(c, shape) ==
  /\ AtHeader(c)
  /\ nReqs' = nReqs + 1
  /\ greq' = [greq EXCEPT ![c] =
                [Request(CMD_ALLOCATE, 0, shape.w, shape.h, shape.f, 0)
                   EXCEPT !.local = next_buffer_id]]
  /\ next_buffer_id' = FetchAdd(next_buffer_id)
  /\ gpc' = [gpc EXCEPT ![c] = "alloc"]
  /\ gLast' = Step(c, CMD_ALLOCATE, next_buffer_id, "fetch")
  /\ io' = Got(c, 0)
  /\ UNCHANGED <<buffers, display_buffer_id, callback, cell, inbox, reply,
                 pixels>>
  /\ UNCHANGED <<inputVars, sVars, restVars>>

\* Variant of TableAfterAllocate: the table is emptied before the insert.
TableAfterAllocateCleared(id, buf) == Insert(<<>>, id, buf)

\* bufs.insert(buffer_id, buffer).
TableAfterAllocate(id, buf) == Insert(buffers, id, buf)

\* The rest of handle_allocate: the buffer is made and inserted under the
\* write lock, and the response is written.
AllocateInsert(c) ==
  /\ gpc[c] = "alloc"
  /\ LET req    == greq[c]
         width  == IF req.width > 0 THEN req.width ELSE DefaultWidth
         height == IF req.height > 0 THEN req.height ELSE DefaultHeight
         format == PixelFormatOrDefault(req.format)
         buf    == NewBuffer(req.local, width, height, format)
         resp   == Response(0, req.local, width, height, buf.stride, format,
                            Len(buf.data))
     IN  /\ buffers' = TableAfterAllocate(req.local, [buf EXCEPT !.g_reply = resp])
         /\ reply' = [reply EXCEPT ![c] = resp]
         /\ gLast' = Step(c, CMD_ALLOCATE, req.local, "reply")
  /\ pixels' = [pixels EXCEPT ![c] = <<>>]
  /\ gpc' = [gpc EXCEPT ![c] = "idle"]
  /\ io' = Sent(c, 1)
  /\ UNCHANGED <<next_buffer_id, display_buffer_id, callback, cell, greq,
                 inbox, nReqs>>
  /\ UNCHANGED <<inputVars, sVars, restVars>>

\* Variant of FreeStatus: Free always reports success.
FreeStatusAlwaysZero(id) == 0

\* The status of handle_free: bufs.remove(&buffer_id).is_some().
FreeStatus(id) == IF Has(buffers, id) THEN 0 ELSE -1

\* Variant of TableAfterFree: the presented buffer is not removed.
TableAfterFreeKeepsPresented(id) ==
  IF id = display_buffer_id THEN buffers ELSE Remove(buffers, id)

\* bufs.remove(&buffer_id).
TableAfterFree(id) == Remove(buffers, id)

\* handle_free and the write of its response.
Free(c, id) ==
  /\ AtHeader(c)
  /\ nReqs' = nReqs + 1
  /\ greq' = [greq EXCEPT ![c] = Request(CMD_FREE, id, 0, 0, 0, 0)]
  /\ buffers' = TableAfterFree(id)
  /\ reply' = [reply EXCEPT ![c] = Response(FreeStatus(id), id, 0, 0, 0, 0, 0)]
  /\ pixels' = [pixels EXCEPT ![c] = <<>>]
  /\ gLast' = Step(c, CMD_FREE, id, "reply")
  /\ io' = Got(c, 1)
  /\ UNCHANGED <<next_buffer_id, display_buffer_id, callback, cell, gpc,
                 inbox>>
  /\ UNCHANGED <<inputVars, sVars, restVars>>

\* The value handle_lock returns after it has written the response itself.
AlreadySent == Response(ALREADY_SENT, 0, 0, 0, 0, 0, 0)

\* Variant of LoopWrites: the loop writes whatever the handler returned.
LoopWritesAlways(result) == <<result>>

\* What the loop of handle_gralloc_client writes after a handler returned:
\* the result, unless its status says that the handler wrote the response.
LoopWrites(result) == IF result.status = ALREADY_SENT THEN <<>> ELSE <<result>>

\* Variant of LockPixels: no data follows the response.
LockPixelsNone(buf) == <<>>

\* The raw bytes handle_lock writes after its response.
LockPixels(buf) == buf.data

\* handle_lock: under the read lock, the response and then the data are
\* written by the handler; the pixels recorded are those that follow the
\* last response written.
Lock(c, id) ==
  /\ AtHeader(c)
  /\ nReqs' = nReqs + 1
  /\ greq' = [greq EXCEPT ![c] = Request(CMD_LOCK, id, 0, 0, 0, 0)]
  /\ LET found   == Has(buffers, id)
         result  == IF found THEN AlreadySent ELSE Failure(id)
         handler == IF found THEN <<Describe(buffers[id])>> ELSE <<>>
         written == handler \o LoopWrites(result)
     IN  /\ reply' = [reply EXCEPT ![c] = written[Len(written)]]
         /\ pixels' = [pixels EXCEPT ![c] =
                         IF found /\ LoopWrites(result) = <<>>
                           THEN LockPixels(buffers[id]) ELSE <<>>]
         /\ io' = Got(c, Len(written))
  /\ gLast' = Step(c, CMD_LOCK, id, "reply")
  /\ UNCHANGED <<buffers, next_buffer_id, display_buffer_id, callback, cell,
                 gpc, inbox>>
  /\ UNCHANGED <<inputVars, sVars, restVars>>

\* Variant of InfoResponse: only status and id are filled in.
InfoResponseBare(buf) == Success(buf.id)

\* The status 0 response of handle_get_info.
InfoResponse(buf) == Describe(buf)

\* handle_get_info and the write of its response.
GetInfo(c, id) ==
  /\ AtHeader(c)
  /\ nReqs' = nReqs + 1
  /\ greq' = [greq EXCEPT ![c] = Request(CMD_GET_INFO, id, 0, 0, 0, 0)]
  /\ reply' = [reply EXCEPT ![c] =
                 IF Has(buffers, id) THEN InfoResponse(buffers[id]) ELSE Failure(id)]
  /\ pixels' = [pixels EXCEPT ![c] = <<>>]
  /\ gLast' = Step(c, CMD_GET_INFO, id, "reply")
  /\ io' = Got(c, 1)
  /\ UNCHANGED <<buffers, next_buffer_id, display_buffer_id, callback, cell,
                 gpc, inbox>>
  /\ UNCHANGED <<inputVars, sVars, restVars>>

\* The default arm of handle_gralloc_client.
OtherCommand(c, command) ==
  /\ AtHeader(c)
  /\ nReqs' = nReqs + 1
  /\ greq' = [greq EXCEPT ![c] = Request(command, 0, 0, 0, 0, 0)]
  /\ reply' = [reply EXCEPT ![c] = Failure(0)]
  /\ pixels' = [pixels EXCEPT ![c] = <<>>]
  /\ gLast' = Step(c, command, 0, "reply")
  /\ io' = Got(c, 1)
  /\ UNCHANGED <<buffers, next_buffer_id, display_buffer_id, callback, cell,
                 gpc, inbox>>
  /\ UNCHANGED <<inputVars, sVars, restVars>>

\* Variant of UnlockConsumed: the payload is only read when the entry exists.
UnlockConsumedIfPresent(size, id) == IF Has(buffers, id) THEN size ELSE 0

\* Bytes of the stream that handle_unlock_with_data reads after the header:
\* read_exact into vec![0u8; data_size] when data_size > 0.
UnlockConsumed(size, id) == IF size > 0 THEN size ELSE 0

\* Variant of DataAfterUnlock: the entry's data is replaced by the payload.
DataAfterUnlockReplaced(old, payload) == payload

\* The entry's data after the copy of handle_unlock_with_data.
DataAfterUnlock(old, payload) == CopyPrefix(old, payload)

\* The response of handle_unlock_with_data: bufs.contains_key(&buffer_id).
UnlockResponse(id) == IF Has(buffers, id) THEN Success(id) ELSE Failure(id)

\* handle_unlock_with_data up to the end of the copy.  The client sends the
\* header and size payload bytes.  With size = 0 there is nothing to read
\* or copy and the response follows in the same section.
UnlockCopy(c, id, size, tag) ==
  /\ AtHeader(c)
  /\ nReqs' = nReqs + 1
  /\ LET payload  == Payload(size, tag)
         consumed == UnlockConsumed(size, id)
     IN  /\ greq' = [greq EXCEPT ![c] =
                       [Request(CMD_UNLOCK, id, 0, 0, 0, size)
                          EXCEPT !.data = SubSeq(payload, 1, consumed),
                                 !.g_copied = size > 0 /\ Has(buffers, id)]]
         /\ inbox' = [inbox EXCEPT ![c] = SubSeq(payload, consumed + 1, size)]
         /\ IF size > 0 /\ Has(buffers, id)
              THEN buffers' = [buffers EXCEPT
                                 ![id].data = DataAfterUnlock(@, SubSeq(payload, 1, consumed)),
                                 ![id].g_unlocks = Append(@, SubSeq(payload, 1, consumed))]
              ELSE UNCHANGED buffers
  /\ IF size > 0
       THEN /\ gpc' = [gpc EXCEPT ![c] = "unlock"]
            /\ gLast' = Step(c, CMD_UNLOCK, id, "copy")
            /\ UNCHANGED <<reply, pixels>>
       ELSE /\ reply' = [reply EXCEPT ![c] = UnlockResponse(id)]
            /\ pixels' = [pixels EXCEPT ![c] = <<>>]
            /\ gLast' = Step(c, CMD_UNLOCK, id, "reply")
            /\ UNCHANGED gpc
  /\ io' = Got(c, IF size > 0 THEN 0 ELSE 1)
  /\ UNCHANGED <<next_buffer_id, display_buffer_id, callback, cell>>
  /\ UNCHANGED <<inputVars, sVars, restVars>>

\* The rest of handle_unlock_with_data: contains_key under the read lock,
\* and the write of the response.
UnlockReply(c) ==
  /\ gpc[c] = "unlock"
  /\ reply' = [reply EXCEPT ![c] = UnlockResponse(greq[c].buffer_id)]
  /\ pixels' = [pixels EXCEPT ![c] = <<>>]
  /\ gpc' = [gpc EXCEPT ![c] = "idle"]
  /\ gLast' = Step(c, CMD_UNLOCK, greq[c].buffer_id, "reply")
  /\ io' = Sent(c, 1)
  /\ UNCHANGED <<buffers, next_buffer_id, display_buffer_id, callback, cell,
                 greq, inbox, nReqs>>
  /\ UNCHANGED <<inputVars, sVars, restVars>>

\* *display_id.write() = Some(buffer_id).
PresentedAfter(id) == id

\* handle_present up to the release of the display_id write lock.
PresentSet(c, id) ==
  /\ AtHeader(c)
  /\ nReqs' = nReqs + 1
  /\ greq' = [greq EXCEPT ![c] = Request(CMD_PRESENT, id, 0, 0, 0, 0)]
  /\ display_buffer_id' = PresentedAfter(id)
  /\ gpc' = [gpc EXCEPT ![c] = "present"]
  /\ gLast' = Step(c, CMD_PRESENT, id, "set")
  /\ io' = Got(c, 0)
  /\ UNCHANGED <<buffers, next_buffer_id, callback, cell, inbox, reply,
                 pixels>>
  /\ UNCHANGED <<inputVars, sVars, restVars>>

\* Variant of CallbackRuns: the callback also runs, on no data, without entry.
CallbackRunsAlways(id) == callback

\* Whether handle_present invokes the callback: an entry is found under the
\* read lock and a callback is installed.
CallbackRuns(id) == Has(buffers, id) /\ callback

\* The callback installed by FrameStreamer::set_gralloc_server, applied to
\* (data, width, height) of the entry.
CellAfterCallback(id) ==
  IF Has(buffers, id)
    THEN [data |-> buffers[id].data, width |-> buffers[id].width,
          height |-> buffers[id].height, dirty |-> TRUE]
    ELSE [data |-> <<>>, width |-> 0, height |-> 0, dirty |-> TRUE]

\* handle_present under the buffer-table read lock: the callback, if any.
\* The phase recorded is "call" when the callback ran and "nocall" when not.
PresentCall(c) ==
  /\ gpc[c] = "present"
  /\ LET id == greq[c].buffer_id
     IN  /\ IF CallbackRuns(id)
              THEN /\ cell' = CellAfterCallback(id)
                   /\ gLast' = Step(c, CMD_PRESENT, id, "call")
              ELSE /\ UNCHANGED cell
                   /\ gLast' = Step(c, CMD_PRESENT, id, "nocall")
  /\ gpc' = [gpc EXCEPT ![c] = "presented"]
  /\ UNCHANGED io
  /\ UNCHANGED <<buffers, next_buffer_id, display_buffer_id, callback, greq,
                 inbox, reply, pixels, nReqs>>
  /\ UNCHANGED <<inputVars, sVars, restVars>>

\* handle_present returns and its response is written.
PresentReply(c) ==
  /\ gpc[c] = "presented"
  /\ reply' = [reply EXCEPT ![c] = Success(greq[c].buffer_id)]
  /\ pixels' = [pixels EXCEPT ![c] = <<>>]
  /\ gpc' = [gpc EXCEPT ![c] = "idle"]
  /\ gLast' = Step(c, CMD_PRESENT, greq[c].buffer_id, "reply")
  /\ io' = Sent(c, 1)
  /\ UNCHANGED <<buffers, next_buffer_id, display_buffer_id, callback, cell,
                 greq, inbox, nReqs>>
  /\ UNCHANGED <<inputVars, sVars, restVars>>

\* set_framebuffer_callback, as called by FrameStreamer::set_gralloc_server.
SetCallback ==
  /\ ~callback
  /\ callback' = TRUE
  /\ UNCHANGED io
  /\ UNCHANGED <<buffers, next_buffer_id, display_buffer_id, cell, gpc, greq,
                 inbox, reply, pixels, gLast, nReqs>>
  /\ UNCHANGED <<inputVars, sVars, restVars>>

\* The value of get_display_buffer().
DisplayBuffer ==
  IF display_buffer_id = NoneId \/ ~Has(buffers, display_buffer_id)
    THEN Absent
    ELSE [some |-> TRUE, data |-> buffers[display_buffer_id].data,
          width |-> buffers[display_buffer_id].width,
          height |-> buffers[display_buffer_id].height]

\* Requests and allocations are bounded.
MoreRequests == nReqs < MaxRequests
MoreBuffers == next_buffer_id <= MaxBuffers

\* The gralloc server with two connections and every command; Unlock
\* carries no payload here.
NextGralloc ==
  \/ \E c \in Conns : Connect(c)
  \/ \E c \in Conns : Disconnect(c)
  \/ /\ MoreRequests /\ MoreBuffers
     /\ \E c \in Conns : AllocateFetch(c, [w |-> 1, h |-> 1, f |-> RGB565])
  \/ \E c \in Conns : AllocateInsert(c)
  \/ /\ MoreRequests
     /\ \E c \in Conns, id \in BufferIds : Free(c, id)
  \/ /\ MoreRequests
     /\ \E c \in Conns, id \in BufferIds : Lock(c, id)
  \/ /\ MoreRequests
     /\ \E c \in Conns, id \in BufferIds : UnlockCopy(c, id, 0, 1)
  \/ /\ MoreRequests
     /\ \E c \in Conns, id \in BufferIds : GetInfo(c, id)
  \/ /\ MoreRequests
     /\ \E c \in Conns, id \in BufferIds : PresentSet(c, id)
  \/ \E c \in Conns : PresentCall(c)
  \/ \E c \in Conns : PresentReply(c)
  \/ /\ MoreRequests
     /\ \E c \in Conns, command \in OtherCommands : OtherCommand(c, command)
  \/ SetCallback

SpecGralloc == Init /\ [][NextGralloc]_vars

(* =================== properties of the gralloc server ================== *)
\* Connections whose worker has drawn an id and not yet inserted its buffer.
Allocating == { c \in Conns : gpc[c] = "alloc" }

\* The last step was taken now, by a worker serving a new request.
NewRequest == nReqs' = nReqs + 1

\* A response to Allocate is the last thing connection c received.
AllocateReplied(c) ==
  gpc[c] = "idle" /\ greq[c].command = CMD_ALLOCATE /\ reply[c].status = 0

\* The id was handed out and its entry, if it was inserted, has been freed.
Retired(id) ==
  /\ id < next_buffer_id
  /\ ~Has(buffers, id)
  /\ \A c \in Allocating : greq[c].local # id

\* C14: the id drawn by an Allocate is the value of the counter, which
\* starts at 1 and grows by one per Allocate; so the ids drawn are 1, 2, 3,
\* ... in the order of the draws, whatever connection draws them and
\* whatever was freed: no two Allocates in progress or answered hold the
\* same id, an id is inserted only when it is not in the table, and every id
\* of the table and of a response is below the counter, and an id whose
\* entry was freed never enters the table again.
C14_IdsUniqueAndIncreasing ==
  /\ [](/\ next_buffer_id >= 1
        /\ \A id \in DOMAIN buffers : 1 <= id /\ id < next_buffer_id
        /\ \A c \in Allocating :
             /\ 1 <= greq[c].local /\ greq[c].local < next_buffer_id
             /\ ~Has(buffers, greq[c].local)
        /\ \A c1, c2 \in Allocating : c1 # c2 => greq[c1].local # greq[c2].local
        /\ \A c \in Conns :
             AllocateReplied(c)
               => /\ reply[c].buffer_id = greq[c].local
                  /\ reply[c].buffer_id < next_buffer_id
        /\ \A c1, c2 \in Conns :
             (c1 # c2 /\ AllocateReplied(c1) /\ AllocateReplied(c2))
               => reply[c1].buffer_id # reply[c2].buffer_id)
  /\ [][/\ next_buffer_id' >= next_buffer_id
        /\ (NewRequest /\ gLast'.command = CMD_ALLOCATE)
             => /\ gLast'.id = next_buffer_id
                /\ next_buffer_id' = next_buffer_id + 1
                /\ greq'[gLast'.conn].local = next_buffer_id
        /\ \A id \in (DOMAIN buffers') \ (DOMAIN buffers) :
             /\ gLast' = Step(gLast'.conn, CMD_ALLOCATE, id, "reply")
             /\ gLast'.conn \in Allocating
             /\ greq[gLast'.conn].local = id
             /\ reply'[gLast'.conn].buffer_id = id
        /\ \A id \in BufferIds : Retired(id) => ~Has(buffers', id)]_vars

\* Both connections have drawn an id and neither has inserted yet; the
\* second connection drew first.
C14_Witness ==
  /\ gpc[1] = "alloc" /\ gpc[2] = "alloc"
  /\ greq[1].local = 2 /\ greq[2].local = 1
  /\ next_buffer_id = 3

\* What Allocate fixes of an entry.
Shape(buf) ==
  <<buf.id, buf.width, buf.height, buf.stride, buf.format, Len(buf.data)>>

\* C15: in every step, an entry of the table either stays, with the same
\* id, dimensions, format and capacity (its bytes change only by an Unlock
\* naming it), or the step is the Free of a request naming its id.
C15_OnlyFreeRemoves ==
  [][\A id \in DOMAIN buffers :
       IF id \in DOMAIN buffers'
         THEN /\ Shape(buffers'[id]) = Shape(buffers[id])
              /\ buffers'[id].data # buffers[id].data
                   => (gLast'.command = CMD_UNLOCK /\ gLast'.id = id)
         ELSE /\ NewRequest
              /\ gLast' = Step(gLast'.conn, CMD_FREE, id, "reply")
              /\ greq'[gLast'.conn] = Request(CMD_FREE, id, 0, 0, 0, 0)]_vars

\* The connection that allocated buffer 1 is closed, the other connection
\* has allocated buffer 2 since, and buffer 1 is still in the table.
C15_Witness ==
  /\ gpc[1] = "done"
  /\ greq[1].command = CMD_ALLOCATE /\ reply[1].buffer_id = 1
  /\ AllocateReplied(2) /\ reply[2].buffer_id = 2
  /\ DOMAIN buffers = {1, 2}

\* C16 as stated: if PresentedId is set, it names an entry of the table.
C16_PresentedIdNamesEntry ==
  display_buffer_id # NoneId => Has(buffers, display_buffer_id)

\* C17: PresentedId, once set, stays set, and changes only by the first
\* section of a Present; the Free of the presented id removes the entry,
\* answers status 0 and leaves PresentedId as it is, and get_display_buffer
\* then returns None, as it does whenever the presented id has no entry.
C17_PresentedIdSurvivesFree ==
  /\ []((display_buffer_id # NoneId /\ ~Has(buffers, display_buffer_id))
          => DisplayBuffer = Absent)
  /\ [][/\ display_buffer_id # NoneId => display_buffer_id' # NoneId
        /\ display_buffer_id' # display_buffer_id
             => gLast' = Step(gLast'.conn, CMD_PRESENT, display_buffer_id', "set")
        /\ (/\ NewRequest
            /\ gLast'.command = CMD_FREE
            /\ gLast'.id = display_buffer_id
            /\ Has(buffers, display_buffer_id))
             => /\ display_buffer_id' = display_buffer_id
                /\ ~Has(buffers', display_buffer_id)
                /\ reply'[gLast'.conn] = Success(display_buffer_id)
                /\ DisplayBuffer' = Absent]_vars

\* Buffer 1 was presented and then freed with status 0.
C17_Witness ==
  /\ display_buffer_id = 1
  /\ ~Has(buffers, 1)
  /\ gLast.command = CMD_FREE /\ gLast.id = 1
  /\ reply[gLast.conn] = Success(1)
  /\ DisplayBuffer = Absent

\* C18: the first section of Present(id) sets PresentedId to id; its second
\* section, under the read lock of the table, invokes the callback iff an
\* entry with that id is found and a callback is installed, and the
\* callback gets the entry's data, width and height; the response, status 0
\* with the id, is written after that section, callback or not.
C18_PresentCallsBackThenReplies ==
  [][/\ \A c \in Conns :
          /\ (gpc[c] = "idle" /\ gpc'[c] = "present")
               => /\ greq'[c].command = CMD_PRESENT
                  /\ display_buffer_id' = greq'[c].buffer_id
          /\ (gpc[c] = "present" /\ gpc'[c] = "presented")
               => LET id == greq[c].buffer_id
                  IN  /\ reply' = reply
                      /\ display_buffer_id' = display_buffer_id
                      /\ IF Has(buffers, id) /\ callback
                           THEN /\ cell' = [data |-> buffers[id].data,
                                            width |-> buffers[id].width,
                                            height |-> buffers[id].height,
                                            dirty |-> TRUE]
                                /\ gLast'.phase = "call"
                           ELSE /\ cell' = cell
                                /\ gLast'.phase = "nocall"
          /\ (gpc[c] = "presented" /\ gpc'[c] = "idle")
               => /\ reply'[c] = Success(greq[c].buffer_id)
                  /\ cell' = cell
          /\ (greq'[c].command = CMD_PRESENT /\ reply'[c] # reply[c])
               => gpc[c] = "presented"
     /\ cell' # cell
          => \E c \in Conns : gpc[c] = "present" /\ gpc'[c] = "presented"]_vars

\* Present(1) of an allocated buffer with the callback installed has run
\* the callback and has been answered.
C18_Witness ==
  /\ gLast.phase = "reply" /\ gLast.command = CMD_PRESENT /\ gLast.id = 1
  /\ Has(buffers, 1)
  /\ cell.dirty /\ cell.data = buffers[1].data /\ cell.width = 1
  /\ reply[gLast.conn] = Success(1)

\* C19: Free(id) answers status 0 and removes the entry when the table
\* holds the id; otherwise it answers status -1 with the same id and leaves
\* the table as it is; GetInfo(id) answers status -1 with the id when the
\* table does not hold it, which is the case after a Free(id).
C19_FreeStatus ==
  /\ [][/\ (NewRequest /\ gLast'.command = CMD_FREE)
             => IF Has(buffers, gLast'.id)
                  THEN /\ reply'[gLast'.conn] = Success(gLast'.id)
                       /\ buffers' = Remove(buffers, gLast'.id)
                  ELSE /\ reply'[gLast'.conn] = Failure(gLast'.id)
                       /\ buffers' = buffers
        /\ (NewRequest /\ gLast'.command = CMD_GET_INFO)
             => /\ buffers' = buffers
                /\ reply'[gLast'.conn].status = (IF Has(buffers, gLast'.id) THEN 0 ELSE -1)
                /\ reply'[gLast'.conn].buffer_id = gLast'.id]_vars
  /\ [][/\ (NewRequest /\ gLast'.command = CMD_FREE) => ~Has(buffers', gLast'.id)
        /\ \A id \in BufferIds : Retired(id) => Retired(id)']_vars

\* Buffer 1 was freed with status 0 by one connection; the second Free of
\* it, by the other connection, was answered -1.
C19_Witness ==
  /\ greq[1] = Request(CMD_FREE, 1, 0, 0, 0, 0)
  /\ reply[1] = Success(1)
  /\ greq[2] = Request(CMD_FREE, 1, 0, 0, 0, 0)
  /\ reply[2] = Failure(1)
  /\ gLast.conn = 2

(* ------------------------- Unlock with payload ------------------------- *)
\* The size field of Unlock requests: no payload, a payload shorter than
\* every buffer, and one longer than the smallest buffer.
UnlockSizes == {0, 1, 3}

\* Payloads differ by their tag.
PayloadTags == {1, 2}

\* The gralloc server with Allocate of both shapes, Unlock with payloads,
\* Lock, GetInfo, Present and Free.
NextUnlock ==
  \/ \E c \in Conns : Connect(c)
  \/ /\ MoreRequests /\ MoreBuffers
     /\ \E c \in Conns, shape \in AllocShapes : AllocateFetch(c, shape)
  \/ \E c \in Conns : AllocateInsert(c)
  \/ /\ MoreRequests
     /\ \E c \in Conns, id \in BufferIds, size \in UnlockSizes, tag \in PayloadTags :
          UnlockCopy(c, id, size, tag)
  \/ \E c \in Conns : UnlockReply(c)
  \/ /\ MoreRequests
     /\ \E c \in Conns, id \in BufferIds : Lock(c, id)
  \/ /\ MoreRequests
     /\ \E c \in Conns, id \in BufferIds : Free(c, id)
  \/ /\ MoreRequests
     /\ \E c \in Conns, id \in BufferIds : GetInfo(c, id)
  \/ /\ MoreRequests
     /\ \E c \in Conns, id \in BufferIds : PresentSet(c, id)
  \/ \E c \in Conns : PresentCall(c)
  \/ \E c \in Conns : PresentReply(c)

SpecUnlock == Init /\ [][NextUnlock]_vars

\* The smaller of two numbers.
Min(a, b) == IF a < b THEN a ELSE b

\* C20: the first section of an Unlock with size > 0 takes exactly the size
\* payload bytes off the stream, entry or not, so that the next header is
\* read where it starts; if the table holds the id, the first
\* min(size, capacity) bytes of the entry become the first bytes of the
\* payload, the other bytes and the capacity stay, and no other entry
\* changes; without entry the table stays as it is.  The response, written
\* by the second section, has status 0 if the table holds the id then, and
\* status -1 otherwise.
C20_UnlockConsumesAndCopies ==
  [][\A c \in Conns :
       /\ (gpc[c] = "idle" /\ gpc'[c] = "unlock")
            => LET id      == greq'[c].buffer_id
                   size    == greq'[c].size
                   payload == greq'[c].data
               IN  /\ greq'[c].command = CMD_UNLOCK
                   /\ size > 0
                   /\ Len(payload) = size
                   /\ inbox'[c] = <<>>
                   /\ DOMAIN buffers' = DOMAIN buffers
                   /\ \A b \in DOMAIN buffers :
                        IF b = id
                          THEN /\ Shape(buffers'[b]) = Shape(buffers[b])
                               /\ \A i \in 1..Len(buffers[b].data) :
                                    buffers'[b].data[i] =
                                      (IF i <= Min(size, Len(buffers[b].data))
                                         THEN payload[i]
                                         ELSE buffers[b].data[i])
                          ELSE buffers'[b] = buffers[b]
       /\ (gpc[c] = "unlock" /\ gpc'[c] = "idle")
            => /\ buffers' = buffers
               /\ reply'[c] = Response(IF Has(buffers, greq[c].buffer_id) THEN 0 ELSE -1,
                                       greq[c].buffer_id, 0, 0, 0, 0, 0)
       /\ gpc[c] = "unlock" => inbox[c] = <<>>]_vars

\* Buffer 1 (two bytes) got a payload of three bytes, cut to two, and then
\* a payload of one byte, which left its second byte; both were answered
\* with status 0.
C20_Witness ==
  /\ Has(buffers, 1)
  /\ buffers[1].data = <<21, 12>>
  /\ \E c \in Conns :
       /\ gpc[c] = "idle"
       /\ greq[c].command = CMD_UNLOCK /\ greq[c].size = 1
       /\ reply[c] = Success(1)
       /\ inbox[c] = <<>>

\* The step is the one handler step of connection c for a new request with
\* the command.
Serves(c, command) ==
  NewRequest /\ gLast'.conn = c /\ gLast'.command = command

\* C21: the response of an Allocate is kept with the entry it inserts and
\* stays with it as long as the table holds the entry; a GetInfo naming an
\* entry of the table answers with exactly that response: status 0, the id
\* and the width, height, stride, format and size of the Allocate response,
\* where size = stride * height * bpp(format); Lock, Unlock with any
\* payload and Present on any connection do not change the answer.
C21_GetInfoRepeatsAllocate ==
  [][/\ \A c \in Conns :
          /\ (gpc[c] = "alloc" /\ gpc'[c] = "idle")
               => /\ Has(buffers', greq[c].local)
                  /\ buffers'[greq[c].local].g_reply = reply'[c]
                  /\ reply'[c].status = 0
                  /\ reply'[c].buffer_id = greq[c].local
          /\ (Serves(c, CMD_GET_INFO) /\ Has(buffers, gLast'.id))
               => /\ reply'[c] = buffers[gLast'.id].g_reply
                  /\ reply'[c].status = 0
                  /\ reply'[c].size =
                       reply'[c].stride * reply'[c].height
                         * BytesPerPixel(reply'[c].format)
     /\ \A id \in DOMAIN buffers \cap DOMAIN buffers' :
          buffers'[id].g_reply = buffers[id].g_reply]_vars

\* Buffer 1 (1x1, RGB565) took a payload of three bytes, and a GetInfo for
\* it has just been answered with the Allocate response.
C21_Witness ==
  /\ gLast.command = CMD_GET_INFO
  /\ gLast.id = 1
  /\ Has(buffers, 1)
  /\ Len(buffers[1].g_unlocks) = 1
  /\ Len(buffers[1].g_unlocks[1]) = 3
  /\ reply[gLast.conn] = Response(0, 1, 1, 1, 1, RGB565, 2)

\* The bytes cut or filled with zeros to the length n.
Fitted(bytes, n) == [i \in 1..n |-> IF i <= Len(bytes) THEN bytes[i] ELSE 0]

\* C22: a Lock naming an entry into which, since its Allocate, exactly one
\* Unlock copied its bytes, writes the entry's Allocate response (status 0)
\* followed by size bytes: the bytes of that Unlock, cut to the size of the
\* buffer or filled up with zeros.
C22_RoundTrip ==
  [][\A c \in Conns :
       (/\ Serves(c, CMD_LOCK)
        /\ Has(buffers, gLast'.id)
        /\ Len(buffers[gLast'.id].g_unlocks) = 1)
         => LET buf == buffers[gLast'.id]
            IN  /\ reply'[c] = buf.g_reply
                /\ reply'[c].status = 0
                /\ pixels'[c] = Fitted(buf.g_unlocks[1], reply'[c].size)]_vars

\* A connection allocated buffer 1 with the default shape (four bytes),
\* sent three bytes with Unlock and got them back from Lock with a zero
\* after them.
C22_Witness ==
  \E c \in Conns :
    /\ gLast = Step(c, CMD_LOCK, 1, "reply")
    /\ io[c].got = 3
    /\ reply[c].size = 4
    /\ pixels[c] = <<11, 12, 13, 0>>

\* The worker of connection c is inside a handler: the header was read and
\* the response is not written yet.
Serving(c) == gpc[c] \in {"alloc", "unlock", "present", "presented"}

\* C23: a worker reads a header only at the top of its loop, when every
\* request it read before has its response; after every step a connection
\* has as many responses as requests read, less the one being served; the
\* step of a Lock that finds the entry writes one response and then size
\* bytes, the step of an unknown command writes one response of status -1,
\* and the last response on a connection has status 0 or -1, never -2.
C23_OneResponsePerRequest ==
  [][\A c \in Conns :
       /\ io'[c].sent = io'[c].got - (IF Serving(c)' THEN 1 ELSE 0)
       /\ io'[c].got > io[c].got
            => /\ gpc[c] = "idle"
               /\ io[c].sent = io[c].got
               /\ io'[c].got = io[c].got + 1
       /\ reply'[c].status \in {0, -1, NoResponse.status}
       /\ reply'[c].status = NoResponse.status => io'[c].sent = 0
       /\ (Serves(c, CMD_LOCK) /\ Has(buffers, gLast'.id))
            => /\ io'[c].sent = io[c].sent + 1
               /\ reply'[c] = Describe(buffers[gLast'.id])
               /\ pixels'[c] = buffers[gLast'.id].data
               /\ Len(pixels'[c]) = reply'[c].size
       /\ (\E command \in OtherCommands : Serves(c, command))
            => /\ io'[c].sent = io[c].sent + 1
               /\ reply'[c].status = -1
               /\ pixels'[c] = <<>>]_vars

\* A connection has sent three requests, the last one a Lock that found
\* its entry, and has three responses.
C23_Witness ==
  \E c \in Conns :
    /\ gLast = Step(c, CMD_LOCK, 1, "reply")
    /\ io[c] = [got |-> 3, sent |-> 3]
    /\ reply[c].status = 0
    /\ pixels[c] = <<0, 0>>

\* C24: the data of every entry of the table has the length
\* stride * height * bpp(format), which is the size its Allocate reported,
\* whatever payloads have been copied into it.
C24_DataLengthFixed ==
  \A id \in DOMAIN buffers :
    /\ Len(buffers[id].data) =
         buffers[id].stride * buffers[id].height * BytesPerPixel(buffers[id].format)
    /\ Len(buffers[id].data) = buffers[id].g_reply.size

\* Buffer 1, of two bytes, took a payload of three bytes and then one of
\* one byte.
C24_Witness ==
  /\ Has(buffers, 1)
  /\ Len(buffers[1].data) = 2
  /\ Len(buffers[1].g_unlocks) = 2
  /\ Len(buffers[1].g_unlocks[1]) = 3
  /\ Len(buffers[1].g_unlocks[2]) = 1

(* ========================= framebuffer streamer ======================== *)
\* FrameStreamer::new(width, height, rootfs_path): the configured size.
StreamWidth == 2
StreamHeight == 1

\* frame_size of the worker: (width * height * 4) as usize.
FrameSize == StreamWidth * StreamHeight * 4

\* What send_frame writes: the header "FRAME", width, height, the length
\* data.len() as u32 (the length itself, for the lengths below 2^32 that
\* occur here), and the data.
Packet(data, width, height) ==
  [magic |-> "FRAME", width |-> width, height |-> height,
   length |-> Len(data), data |-> data]

\* The files the fallback path may hold: none, one shorter than a frame,
\* one longer than a frame.
FileOf(n) == [exists |-> TRUE, bytes |-> [i \in 1..n |-> 50 + i]]
Files == {NoFile, FileOf(FrameSize - 1), FileOf(FrameSize + 1)}

\* generate_test_pattern: FrameSize bytes.  The picture (border, crosshair,
\* indicator) is reduced to its base colour, which changes every 30 frames
\* through six phases.
TestPattern(frame) == [i \in 1..FrameSize |-> 200 + ((frame \div 30) % 6)]

\* Variant of FileFrame: whatever the file holds is taken.
FileFrameAnyLength(file) ==
  [ok |-> file.exists, data |-> file.bytes]

\* read_framebuffer_or_test_pattern, the file part: File::open and
\* read_exact of FrameSize bytes.
FileFrame(file) ==
  IF file.exists /\ Len(file.bytes) >= FrameSize
    THEN [ok |-> TRUE, data |-> SubSeq(file.bytes, 1, FrameSize)]
    ELSE [ok |-> FALSE, data |-> <<>>]

\* The test of the tick loop on the latest-frame cell.
CellUsable(fb) == fb.data # <<>> /\ fb.width > 0 /\ fb.height > 0

\* The frame a tick takes, with the source it came from and the dimensions
\* of that source (g_ fields: the worker keeps the bytes only).
ChooseFrame(fb, file, frame_counter) ==
  IF CellUsable(fb)
    THEN [data |-> fb.data, g_src |-> "cell",
          g_width |-> fb.width, g_height |-> fb.height]
    ELSE IF FileFrame(file).ok
      THEN [data |-> FileFrame(file).data, g_src |-> "file",
            g_width |-> StreamWidth, g_height |-> StreamHeight]
      ELSE [data |-> TestPattern(frame_counter), g_src |-> "pattern",
            g_width |-> StreamWidth, g_height |-> StreamHeight]

NoFrame == [data |-> <<>>, g_src |-> "none", g_width |-> 0, g_height |-> 0]

\* The worker thread as start() spawns it.
NewWorker == [pc |-> "top", frame |-> NoFrame, frame_counter |-> 0]

\* Variant of SwapRunning: the caller never sees the flag set.
SwapRunningBlind(old) == FALSE

\* What running.swap(true) returns to start(): the flag as it was.
SwapRunning(old) == old

\* start(), first part: running.swap(true, SeqCst); the caller returns if
\* the flag was set.
StartSwap(t) ==
  /\ spc[t] = "idle"
  /\ nStarts' = nStarts + 1
  /\ running' = TRUE
  /\ spc' = [spc EXCEPT ![t] = IF SwapRunning(running) THEN "idle" ELSE "swapped"]
  /\ UNCHANGED <<workers, clients, cpc, link, recv, fbfile, g_fan>>
  /\ UNCHANGED <<inputVars, gVars, restVars>>

\* start(), second part: thread::spawn of the worker.
StartSpawn(t) ==
  /\ spc[t] = "swapped"
  /\ workers' = Append(workers, NewWorker)
  /\ spc' = [spc EXCEPT ![t] = "idle"]
  /\ UNCHANGED <<running, nStarts, clients, cpc, link, recv, fbfile, g_fan>>
  /\ UNCHANGED <<inputVars, gVars, restVars>>

\* handle_client up to its read loop: the info line is written and a clone
\* of the stream is pushed by add_client, under the lock of the Vec.
AddClient(k) ==
  /\ cpc[k] = "none"
  /\ cpc' = [cpc EXCEPT ![k] = "reading"]
  /\ clients' = Append(clients, k)
  /\ UNCHANGED <<running, workers, spc, nStarts, link, recv, fbfile, g_fan>>
  /\ UNCHANGED <<inputVars, gVars, restVars>>

\* Variant of ClientsAfterReadEnd: the client is taken out of the Vec.
ClientsAfterReadEndDropped(list, k) == SelectSeq(list, LAMBDA x : x # k)

\* The Vec of the streamer after handle_client has returned: the function
\* drops its stream and its reader, and does not touch the streamer.
ClientsAfterReadEnd(list, k) == list

\* The read loop of handle_client gets Ok(0) or Err and breaks.
ReadEnds(k) ==
  /\ cpc[k] = "reading"
  /\ cpc' = [cpc EXCEPT ![k] = "ended"]
  /\ clients' = ClientsAfterReadEnd(clients, k)
  /\ UNCHANGED <<running, workers, spc, nStarts, link, recv, fbfile, g_fan>>
  /\ UNCHANGED <<inputVars, gVars, restVars>>

\* The connection to a control client breaks: writes to it fail from now on.
LinkDown(k) ==
  /\ cpc[k] # "none"
  /\ link[k] = "up"
  /\ link' = [link EXCEPT ![k] = "down"]
  /\ UNCHANGED <<running, workers, spc, nStarts, clients, cpc, recv, fbfile, g_fan>>
  /\ UNCHANGED <<inputVars, gVars, restVars>>

\* The file at the fallback path is created, replaced or removed.
FileChanges(file) ==
  /\ fbfile # file
  /\ fbfile' = file
  /\ UNCHANGED <<running, workers, spc, nStarts, clients, cpc, link, recv, g_fan>>
  /\ UNCHANGED <<inputVars, gVars, restVars>>

\* The tick loop, first part: running is set, and the frame is taken from
\* the cell (under its read lock), the file or the generator.
TickChoose(w) ==
  /\ w \in DOMAIN workers
  /\ workers[w].pc = "top"
  /\ running
  /\ workers' = [workers EXCEPT ![w].pc = "send",
                                ![w].frame = ChooseFrame(cell, fbfile,
                                                         workers[w].frame_counter)]
  /\ UNCHANGED <<running, spc, nStarts, clients, cpc, link, recv, fbfile, g_fan>>
  /\ UNCHANGED <<inputVars, gVars, restVars>>

\* Variant of RemoveClient: the last element takes the place (swap_remove).
RemoveClientSwap(list, i) ==
  IF i = Len(list) THEN SubSeq(list, 1, i - 1)
  ELSE [j \in 1..(Len(list) - 1) |-> IF j = i THEN list[Len(list)] ELSE list[j]]

\* clients.remove(i) of the fan-out loop: Vec::remove shifts the elements
\* after position i (1-based here) to the left.
RemoveClient(list, i) ==
  SubSeq(list, 1, i - 1) \o SubSeq(list, i + 1, Len(list))

\* The fan-out loop from position i on: send_frame to clients[i]; on an
\* error the client is removed and i stays, otherwise i moves on.  tried
\* collects the clients in the order of the calls of send_frame.
RECURSIVE FanOutFrom(_, _, _)
FanOutFrom(list, i, tried) ==
  IF i > Len(list)
    THEN [clients |-> list, tried |-> tried]
    ELSE IF link[list[i]] = "up"
      THEN FanOutFrom(list, i + 1, Append(tried, list[i]))
      ELSE FanOutFrom(RemoveClient(list, i), i, Append(tried, list[i]))

\* Is x an element of the sequence?
InSeq(x, list) == \E i \in 1..Len(list) : list[i] = x

\* The tick loop, second part: under the lock of the Vec the frame is sent
\* to every client with the configured width and height; then the frame
\* counter is advanced.
TickSend(w) ==
  /\ w \in DOMAIN workers
  /\ workers[w].pc = "send"
  /\ LET frame == workers[w].frame.data
         out   == FanOutFrom(clients, 1, <<>>)
     IN  /\ clients' = out.clients
         /\ recv' = [k \in Clients |->
                       IF InSeq(k, out.tried) /\ link[k] = "up"
                         THEN Packet(frame, StreamWidth, StreamHeight)
                         ELSE recv[k]]
         /\ g_fan' = [worker |-> w, frame |-> frame, before |-> clients,
                      tried |-> out.tried,
                      ended |-> { k \in Clients : cpc[k] = "ended" }]
  /\ workers' = [workers EXCEPT ![w].pc = "top",
                                ![w].frame_counter = @ + 1]
  /\ UNCHANGED <<running, spc, nStarts, cpc, link, fbfile>>
  /\ UNCHANGED <<inputVars, gVars, restVars>>

MoreStarts == nStarts < MaxStarts
MoreTicks(w) == w \in DOMAIN workers /\ workers[w].frame_counter < MaxTicks

\* The streamer fed by the gralloc server: one gralloc connection, one
\* call of start() as in main(), one control client.
NextStream ==
  \/ Connect(1)
  \/ SetCallback
  \/ /\ MoreRequests /\ MoreBuffers
     /\ \E shape \in AllocShapes : AllocateFetch(1, shape)
  \/ AllocateInsert(1)
  \/ /\ MoreRequests
     /\ \E id \in BufferIds : PresentSet(1, id)
  \/ PresentCall(1)
  \/ PresentReply(1)
  \/ /\ MoreRequests
     /\ \E id \in BufferIds : Free(1, id)
  \/ \E file \in Files : FileChanges(file)
  \/ nStarts = 0 /\ StartSwap(1)
  \/ StartSpawn(1)
  \/ AddClient(1)
  \/ \E w \in 1..MaxStarts : MoreTicks(w) /\ TickChoose(w)
  \/ \E w \in 1..MaxStarts : TickSend(w)

SpecStream == Init /\ [][NextStream]_vars

\* The streamer and its control clients: one call of start() as in main(),
\* clients that come, in any order, and break, and ticks.
NextClients ==
  \/ nStarts = 0 /\ StartSwap(1)
  \/ StartSpawn(1)
  \/ \E k \in Clients : AddClient(k)
  \/ \E k \in Clients : LinkDown(k)
  \/ \E w \in 1..MaxStarts : MoreTicks(w) /\ TickChoose(w)
  \/ \E w \in 1..MaxStarts : TickSend(w)

SpecClients == Init /\ [][NextClients]_vars

\* start() called from several threads, two control clients that come,
\* stop reading and break, and ticks.
NextStart ==
  \/ \E t \in Starters : MoreStarts /\ StartSwap(t)
  \/ \E t \in Starters : StartSpawn(t)
  \/ \E k \in {1, 2} : AddClient(k)
  \/ \E k \in {1, 2} : ReadEnds(k)
  \/ \E k \in {1, 2} : LinkDown(k)
  \/ \E w \in 1..MaxStarts : MoreTicks(w) /\ TickChoose(w)
  \/ \E w \in 1..MaxStarts : TickSend(w)

SpecStart == Init /\ [][NextStart]_vars

\* The step is the first part of a tick of worker w, and its second part.
Chooses(w) ==
  w \in DOMAIN workers /\ workers[w].pc = "top" /\ workers'[w].pc = "send"
Sends(w) ==
  w \in DOMAIN workers /\ workers[w].pc = "send" /\ workers'[w].pc = "top"

\* The latest-frame cell holds a frame.
CellHoldsFrame == cell.data # <<>> /\ cell.width > 0 /\ cell.height > 0

\* C25: a frame taken from the latest-frame cell reaches every client it
\* is written to with its bytes unchanged, with the length of these bytes,
\* and with the width and height of the cell in the header.
C25_HeaderCarriesSourceSize ==
  [][\A w \in 1..MaxStarts :
       (Sends(w) /\ workers[w].frame.g_src = "cell")
         => \A k \in Clients :
              (InSeq(k, clients) /\ link[k] = "up")
                => /\ recv'[k].data = workers[w].frame.data
                   /\ recv'[k].length = Len(workers[w].frame.data)
                   /\ recv'[k].width = workers[w].frame.g_width
                   /\ recv'[k].height = workers[w].frame.g_height]_vars

\* C26: the first part of a tick takes the bytes of the cell if the cell
\* holds a frame; if not, the first FrameSize bytes of the fallback file if
\* the file can be opened and has that many; if not, the test pattern of
\* the worker's frame counter.
C26_SourcePriority ==
  [][\A w \in 1..MaxStarts :
       Chooses(w)
         => LET f == workers'[w].frame
            IN  IF CellHoldsFrame
                  THEN f.g_src = "cell" /\ f.data = cell.data
                  ELSE IF fbfile.exists /\ Len(fbfile.bytes) >= FrameSize
                    THEN /\ f.g_src = "file"
                         /\ f.data = SubSeq(fbfile.bytes, 1, FrameSize)
                    ELSE /\ f.g_src = "pattern"
                         /\ f.data = TestPattern(workers[w].frame_counter)
                         /\ Len(f.data) = FrameSize]_vars

\* With an empty cell and a file longer than a frame, the worker has taken
\* the first FrameSize bytes of the file.
C26_Witness ==
  \E w \in DOMAIN workers :
    /\ workers[w].pc = "send"
    /\ ~CellHoldsFrame
    /\ Len(fbfile.bytes) = FrameSize + 1
    /\ workers[w].frame.g_src = "file"
    /\ Len(workers[w].frame.data) = FrameSize

\* C27: a Free leaves the presented id as it is; the callback of a Present
\* that names an id without entry does not write the cell; and once the
\* presented buffer has been freed, a tick takes its frame from the file
\* or the generator, not from the cell.
C27_FreedBufferNotStreamed ==
  [][/\ \A c \in Conns :
          /\ Serves(c, CMD_FREE) => display_buffer_id' = display_buffer_id
          /\ (gpc[c] = "present" /\ gpc'[c] = "presented"
                /\ ~Has(buffers, greq[c].buffer_id))
               => cell' = cell
     /\ \A w \in 1..MaxStarts :
          (/\ Chooses(w)
           /\ display_buffer_id # NoneId
           /\ Retired(display_buffer_id))
            => workers'[w].frame.g_src # "cell"]_vars

\* C28: the second part of a tick calls send_frame once for every client of
\* the Vec, in the order of the Vec; the clients whose write fails are
\* removed and the others stay in their order; each of the others has
\* received the frame of this tick, with the same bytes for all.
C28_FanOutInOrder ==
  [][\A w \in 1..MaxStarts :
       Sends(w)
         => /\ g_fan'.tried = clients
            /\ clients' = SelectSeq(clients, LAMBDA k : link[k] = "up")
            /\ \A k \in Clients :
                 IF InSeq(k, clients) /\ link[k] = "up"
                   THEN /\ recv'[k].magic = "FRAME"
                        /\ recv'[k].data = workers[w].frame.data
                        /\ recv'[k].length = Len(workers[w].frame.data)
                   ELSE recv'[k] = recv[k]]_vars

\* Clients 2, 3 and 1 were registered in this order; the write to client 3
\* failed in the last tick, and 2 and 1 stay, in this order, with the frame.
C28_Witness ==
  /\ g_fan.before = <<2, 3, 1>>
  /\ g_fan.tried = <<2, 3, 1>>
  /\ clients = <<2, 1>>
  /\ recv[2].magic = "FRAME"
  /\ recv[1] = recv[2]
  /\ recv[3] = NoPacket

\* C29: however many calls of start() have been made, and wherever the
\* calling threads are, the workers spawned and the callers that are about
\* to spawn one are one in all, once start() has been called.
C29_OneWorker ==
  /\ Len(workers) + Cardinality({ t \in Starters : spc[t] = "swapped" })
       = (IF nStarts > 0 THEN 1 ELSE 0)
  /\ running = (nStarts > 0)

\* start() has been called three times or more, no caller is inside it,
\* and there is one worker.
C29_Witness ==
  /\ nStarts >= 3
  /\ Len(workers) = 1
  /\ spc[1] = "idle" /\ spc[2] = "idle"

\* C30: the step in which the read loop of a client ends changes neither
\* the Vec of the streamer nor what the clients have received; a client
\* leaves the Vec only in the second part of a tick, and only if the write
\* to it fails; and a tick writes its frame to every client of the Vec that
\* can be written to, whether its read loop has ended or not, and keeps it.
C30_ReadEndKeepsStream ==
  [][\A k \in Clients :
       /\ (cpc[k] = "reading" /\ cpc'[k] = "ended")
            => clients' = clients /\ recv' = recv
       /\ (InSeq(k, clients) /\ ~InSeq(k, clients'))
            => link[k] = "down" /\ \E w \in 1..MaxStarts : Sends(w)
       /\ \A w \in 1..MaxStarts :
            (Sends(w) /\ InSeq(k, clients) /\ link[k] = "up")
              => /\ InSeq(k, clients')
                 /\ recv'[k] = Packet(workers[w].frame.data, StreamWidth, StreamHeight)]_vars

\* The read loop of a client had ended when the last tick ran; the tick
\* wrote its frame to the client, which is still registered.
C30_Witness ==
  \E k \in g_fan.ended :
    /\ InSeq(k, g_fan.tried)
    /\ InSeq(k, clients)
    /\ cpc[k] = "ended"
    /\ recv[k] = Packet(g_fan.frame, StreamWidth, StreamHeight)

(* ============================ ADB forwarder ============================ *)
\* The variables of the other parts of the daemon.
notAdb == <<inputVars, gVars, sVars, bVars, lVars>>

\* The bytes a peer may send.
AdbBytes == {1, 2}

\* The bytes of the source that the task of direction d has not read.
Unread(d) == Len(src[d]) - rd[d]

\* forward_adb_connection up to the joins: UnixStream::connect, or the TCP
\* fallback and forward_tcp_streams, or neither; with a route the streams
\* are cloned and the two copy tasks are spawned.
AdbAccept(route) ==
  /\ fpc.pc = "idle"
  /\ IF route = "none"
       THEN /\ fpc' = [pc |-> "refused", route |-> route]
            /\ UNCHANGED task
       ELSE /\ fpc' = [pc |-> "join1", route |-> route]
            /\ task' = [d \in Dirs |-> [NoTask EXCEPT !.pc = "read"]]
  /\ UNCHANGED <<peer, src, rd, dst>>
  /\ UNCHANGED notAdb

\* A peer sends one byte on the forwarded connection.
PeerSends(p, b) ==
  /\ fpc.pc \in {"join1", "join2"}
  /\ peer[p] = "open"
  /\ LET d == IF p = "client" THEN "up" ELSE "down"
     IN  src' = [src EXCEPT ![d] = Append(@, b)]
  /\ UNCHANGED <<peer, rd, dst, task, fpc>>
  /\ UNCHANGED notAdb

\* A peer closes its end, in order ("closed") or with a reset.
PeerEnds(p, how) ==
  /\ fpc.pc \in {"join1", "join2"}
  /\ peer[p] = "open"
  /\ peer' = [peer EXCEPT ![p] = how]
  /\ UNCHANGED <<src, rd, dst, task, fpc>>
  /\ UNCHANGED notAdb

\* The buffer after a read of the bytes chunk: they take its first places.
BufAfterRead(buf, chunk) ==
  [i \in 1..BUF_SIZE |-> IF i <= Len(chunk) THEN chunk[i] ELSE buf[i]]

\* read(&mut buf) returns Ok(n), n > 0: the next n unread bytes.
TaskRead(d, n) ==
  /\ task[d].pc = "read"
  /\ peer[Source(d)] # "reset"
  /\ n \in 1..BUF_SIZE
  /\ n <= Unread(d)
  /\ task' = [task EXCEPT ![d] =
                [pc |-> "write",
                 buf |-> BufAfterRead(@.buf, SubSeq(src[d], rd[d] + 1, rd[d] + n)),
                 n |-> n]]
  /\ rd' = [rd EXCEPT ![d] = @ + n]
  /\ UNCHANGED <<peer, src, dst, fpc>>
  /\ UNCHANGED notAdb

\* read returns Ok(0), the source having closed with nothing unread, or
\* Err, the source having reset: the task breaks out of its loop.
TaskReadEnd(d) ==
  /\ task[d].pc = "read"
  /\ \/ peer[Source(d)] = "reset"
     \/ peer[Source(d)] = "closed" /\ Unread(d) = 0
  /\ task' = [task EXCEPT ![d].pc = "done"]
  /\ UNCHANGED <<peer, src, rd, dst, fpc>>
  /\ UNCHANGED notAdb

\* Variant of WriteSlice: the whole buffer is written.
WriteSliceWholeBuffer(buf, n) == buf

\* The bytes handed to write_all: &buf[..n].
WriteSlice(buf, n) == SubSeq(buf, 1, n)

\* write_all returns Ok: the destination is open, or has closed its end
\* and the kernel still takes the bytes.
TaskWrite(d) ==
  /\ task[d].pc = "write"
  /\ peer[Dest(d)] \in {"open", "closed"}
  /\ dst' = [dst EXCEPT ![d] = @ \o WriteSlice(task[d].buf, task[d].n)]
  /\ task' = [task EXCEPT ![d].pc = "read"]
  /\ UNCHANGED <<peer, src, rd, fpc>>
  /\ UNCHANGED notAdb

\* write_all returns Err after k of the bytes were written: the destination
\* is gone; the task breaks out of its loop.
TaskWriteFails(d, k) ==
  /\ task[d].pc = "write"
  /\ peer[Dest(d)] # "open"
  /\ k \in 0..(task[d].n - 1)
  /\ dst' = [dst EXCEPT ![d] = @ \o SubSeq(WriteSlice(task[d].buf, task[d].n), 1, k)]
  /\ task' = [task EXCEPT ![d].pc = "done"]
  /\ UNCHANGED <<peer, src, rd, fpc>>
  /\ UNCHANGED notAdb

\* Variant of JoinReturns: a join returns whatever the task does.
JoinReturnsAtOnce(d) == TRUE

\* JoinHandle::join returns when the task has terminated.
JoinReturns(d) == task[d].pc = "done"

\* handle1.join().
JoinUp ==
  /\ fpc.pc = "join1"
  /\ JoinReturns("up")
  /\ fpc' = [fpc EXCEPT !.pc = "join2"]
  /\ UNCHANGED <<peer, src, rd, dst, task>>
  /\ UNCHANGED notAdb

\* handle2.join(), and the end of the function: forward_adb_connection logs
\* the connection closed, forward_tcp_streams returns.
JoinDown ==
  /\ fpc.pc = "join2"
  /\ JoinReturns("down")
  /\ fpc' = [fpc EXCEPT !.pc = "closed"]
  /\ UNCHANGED <<peer, src, rd, dst, task>>
  /\ UNCHANGED notAdb

MoreBytes(p) == Len(src[IF p = "client" THEN "up" ELSE "down"]) < MaxBytes

\* The steps of the forwarder's own threads.
AdbStep ==
  \/ \E d \in Dirs, n \in 1..BUF_SIZE : TaskRead(d, n)
  \/ \E d \in Dirs : TaskReadEnd(d)
  \/ \E d \in Dirs : TaskWrite(d)
  \/ \E d \in Dirs, k \in 0..(BUF_SIZE - 1) : TaskWriteFails(d, k)
  \/ JoinUp
  \/ JoinDown

NextAdb ==
  \/ \E route \in {"unix", "tcp", "none"} : AdbAccept(route)
  \/ \E p \in Peers, b \in AdbBytes : MoreBytes(p) /\ PeerSends(p, b)
  \/ \E p \in Peers, how \in {"closed", "reset"} : PeerEnds(p, how)
  \/ AdbStep

SpecAdb == Init /\ [][NextAdb]_vars

\* The forwarder with threads that are scheduled as long as they can run.
SpecAdbFair == SpecAdb /\ WF_vars(AdbStep)

\* C31: a copy task terminates only in a read that returns 0 (the source
\* has closed and nothing is unread) or fails (the source has reset), or
\* in a write to a destination that is gone; a read or a write that
\* succeeds keeps it in its loop; and the forwarder is past its second
\* join, where it reports the connection closed, only when both tasks have
\* terminated.
C31_TasksEndThenClosed ==
  [][/\ \A d \in Dirs :
          /\ (task[d].pc # "done" /\ task'[d].pc = "done")
               => \/ /\ task[d].pc = "read"
                     /\ \/ peer[Source(d)] = "reset"
                        \/ peer[Source(d)] = "closed" /\ Unread(d) = 0
                  \/ /\ task[d].pc = "write"
                     /\ peer[Dest(d)] # "open"
          /\ (task[d].pc = "read" /\ rd'[d] > rd[d]) => task'[d].pc = "write"
          /\ (task[d].pc = "write" /\ Len(dst'[d]) = Len(dst[d]) + task[d].n)
               => task'[d].pc = "read"
     /\ fpc'.pc = "closed" => \A d \in Dirs : task'[d].pc = "done"
     /\ fpc'.pc = "join2" => task'["up"].pc = "done"]_vars

\* Both bytes of the client went to adbd, then one task ended in a read of
\* 0 and the other in a failed write, and the forwarder has reported.
C31_Witness ==
  /\ fpc = [pc |-> "closed", route |-> "unix"]
  /\ dst["up"] = <<1, 2>>
  /\ Len(dst["down"]) < rd["down"]
  /\ \A d \in Dirs : task[d].pc = "done"

\* C32: in each direction the bytes written to the destination are the
\* first bytes the source has sent, in their order, and no more than the
\* task has read.
C32_BlindPump ==
  \A d \in Dirs :
    /\ Len(dst[d]) <= rd[d]
    /\ rd[d] <= Len(src[d])
    /\ dst[d] = SubSeq(src[d], 1, Len(dst[d]))

\* Two bytes went up, read one at a time, while two others went down.
C32_Witness ==
  /\ dst["up"] = <<1, 2>>
  /\ task["up"].n = 1
  /\ dst["down"] = <<2, 1>>

\* C39: once a peer of a forwarded connection has closed its end, both
\* tasks terminate and the forwarder's thread finishes.
C39_CloseEndsForwarding ==
  (\E p \in Peers : peer[p] # "open")
    ~> (fpc.pc = "closed" /\ \A d \in Dirs : task[d].pc = "done")

(* ======================= start of the components ======================= *)
notBoot == <<inputVars, gVars, sVars, aVars, lVars>>

\* The components whose bind runs in a thread of its own or inside
\* GrallocServer::start.
Workers == {"touch", "key", "gralloc", "adb"}

\* UnixListener::bind / TcpListener::bind of touch_server, key_server,
\* GrallocServer::start and start_adb_forwarder: on Err the error is logged
\* and the function returns.
Bind(c, ok) ==
  /\ c \in Workers
  /\ daemon = "up"
  /\ comp[c] = "starting"
  /\ comp' = [comp EXCEPT ![c] = IF ok THEN "serving" ELSE "failed"]
  /\ UNCHANGED daemon
  /\ UNCHANGED notBoot

\* TcpListener::bind(&args.bind) of main, which runs after the gralloc
\* server was started: on Err the error is logged and
\* std::process::exit(1) ends the process with all its threads.
BindControl(ok) ==
  /\ daemon = "up"
  /\ comp["control"] = "starting"
  /\ comp["gralloc"] # "starting"
  /\ IF ok
       THEN /\ comp' = [comp EXCEPT !["control"] = "serving"]
            /\ UNCHANGED daemon
       ELSE /\ comp' = [c \in Components |->
                          IF c = "control" THEN "failed"
                          ELSE IF comp[c] = "failed" THEN "failed" ELSE "killed"]
            /\ daemon' = "exited"
  /\ UNCHANGED notBoot

NextBoot ==
  \/ \E c \in Workers, ok \in BOOLEAN : Bind(c, ok)
  \/ \E ok \in BOOLEAN : BindControl(ok)

SpecBoot == Init /\ [][NextBoot]_vars

\* C33: the step in which the bind of a component fails leaves the process
\* running and the other components as they are.
C33_BindFailureIsLocal ==
  [][\A c \in Components :
       (comp[c] = "starting" /\ comp'[c] = "failed")
         => /\ daemon' = "up"
            /\ \A o \in Components \ {c} : comp'[o] = comp[o]]_vars

(* ============================== the locks ============================== *)
notLocks == <<inputVars, gVars, sVars, aVars, bVars>>

\* At most MaxBusy threads are inside a handler at the same time.
MaxBusy == 3

Acq(lk, mode) == [op |-> "acq", lock |-> lk, mode |-> mode]
Rel(lk) == [op |-> "rel", lock |-> lk, mode |-> "none"]
Io(what) == [op |-> "io", lock |-> what, mode |-> "none"]

\* The lock operations and the blocking reads and writes of each handler,
\* in program order.
AllocatePath == <<Acq("buffers", "write"), Rel("buffers"), Io("reply")>>
FreePath == <<Acq("buffers", "write"), Rel("buffers"), Io("reply")>>
\* handle_lock for a buffer in the table: response and pixel data are
\* written inside the read section (a missing buffer takes the section of
\* handle_get_info).
LockPath ==
  <<Acq("buffers", "read"), Io("response"), Io("pixels"), Rel("buffers")>>
UnlockPath ==
  <<Io("payload"), Acq("buffers", "write"), Rel("buffers"),
    Acq("buffers", "read"), Rel("buffers"), Io("reply")>>
GetInfoPath == <<Acq("buffers", "read"), Rel("buffers"), Io("reply")>>
\* handle_present with the callback of set_gralloc_server, which takes the
\* write lock of the latest-frame cell.
PresentPath ==
  <<Acq("display_buffer_id", "write"), Rel("display_buffer_id"),
    Acq("buffers", "read"), Acq("framebuffer_callback", "mutex"),
    Acq("gralloc_framebuffer", "write"), Rel("gralloc_framebuffer"),
    Rel("framebuffer_callback"), Rel("buffers"), Io("reply")>>
\* One tick whose frame comes from the cell.
TickPath ==
  <<Acq("gralloc_framebuffer", "read"), Rel("gralloc_framebuffer"),
    Acq("clients", "mutex"), Io("frame"), Rel("clients")>>
\* One tick whose cell is not usable: the file is read inside the
\* `if let Ok(fb) = gralloc_fb.read()` block.
TickFilePath ==
  <<Acq("gralloc_framebuffer", "read"), Io("file"),
    Rel("gralloc_framebuffer"),
    Acq("clients", "mutex"), Io("frame"), Rel("clients")>>
AddClientPath == <<Acq("clients", "mutex"), Rel("clients")>>
SetCallbackPath ==
  <<Acq("framebuffer_callback", "mutex"), Rel("framebuffer_callback")>>
\* handle_touch_event: the sender guard lives for the whole function, the
\* touch state is locked inside each arm; the channel send does not block.
TouchEventPath ==
  <<Acq("INPUT_SENDER", "mutex"), Acq("G_INPUT_MT", "mutex"),
    Rel("G_INPUT_MT"), Rel("INPUT_SENDER")>>
SendKeyPath == <<Acq("KEY_SENDER", "mutex"), Rel("KEY_SENDER")>>
TouchAcceptResettingState ==
  <<Io("descriptor"), Acq("G_INPUT_MT", "mutex"),
    Acq("INPUT_SENDER", "mutex"), Rel("INPUT_SENDER"), Rel("G_INPUT_MT")>>
TouchAcceptPath ==
  <<Io("descriptor"), Acq("INPUT_SENDER", "mutex"), Rel("INPUT_SENDER")>>
KeyAcceptPath ==
  <<Io("descriptor"), Acq("KEY_SENDER", "mutex"), Rel("KEY_SENDER")>>

Path(job) ==
  CASE job = "handle_allocate" -> AllocatePath
    [] job = "handle_free" -> FreePath
    [] job = "handle_lock" -> LockPath
    [] job = "handle_unlock_with_data" -> UnlockPath
    [] job = "handle_get_info" -> GetInfoPath
    [] job = "handle_present" -> PresentPath
    [] job = "tick" -> TickPath
    [] job = "tick_file" -> TickFilePath
    [] job = "add_client" -> AddClientPath
    [] job = "set_framebuffer_callback" -> SetCallbackPath
    [] job = "handle_touch_event" -> TouchEventPath
    [] job = "send_key_code" -> SendKeyPath
    [] job = "touch_server" -> TouchAcceptPath
    [] job = "key_server" -> KeyAcceptPath
    [] OTHER -> <<>>

JobsOf(t) ==
  CASE t \in {"worker1", "worker2"} ->
         {"handle_allocate", "handle_free", "handle_lock",
          "handle_unlock_with_data", "handle_get_info", "handle_present"}
    [] t = "tick" -> {"tick", "tick_file"}
    [] t = "control" -> {"add_client"}
    [] t = "install" -> {"set_framebuffer_callback"}
    [] t \in {"producer1", "producer2"} ->
         {"handle_touch_event", "send_key_code"}
    [] t = "touch_server" -> {"touch_server"}
    [] t = "key_server" -> {"key_server"}

Busy == {t \in LockThreads : lth[t].job # "none"}

\* The mode in which thread t holds the lock, "none" when it does not.
HeldMode(t, lk) ==
  LET p == Path(lth[t].job)
      got == {i \in 1..lth[t].at :
                /\ p[i].op = "acq" /\ p[i].lock = lk
                /\ \A j \in (i + 1)..lth[t].at :
                     ~(p[j].op = "rel" /\ p[j].lock = lk)}
  IN IF got = {} THEN "none" ELSE p[CHOOSE i \in got : TRUE].mode

Locks ==
  {"buffers", "display_buffer_id", "framebuffer_callback",
   "gralloc_framebuffer", "clients", "INPUT_SENDER", "G_INPUT_MT",
   "KEY_SENDER"}

Held(t) == {l \in Locks : HeldMode(t, l) # "none"}

NextOp(t) == Path(lth[t].job)[lth[t].at + 1]

\* The threads whose hold keeps t from taking the lock: every holder for a
\* Mutex or a write lock, the writer for a read lock.
Holders(lk, mode) ==
  {u \in LockThreads :
     IF mode = "read" THEN HeldMode(u, lk) = "write"
     ELSE HeldMode(u, lk) # "none"}

Advance(t) ==
  lth' = [lth EXCEPT ![t] =
            IF @.at + 1 = Len(Path(@.job)) THEN Resting
            ELSE [@ EXCEPT !.at = @ + 1]]

Enter(t, job) ==
  /\ lth[t] = Resting
  /\ job \in JobsOf(t)
  /\ Cardinality(Busy) < MaxBusy
  /\ lth' = [lth EXCEPT ![t] = [job |-> job, at |-> 0]]
  /\ UNCHANGED notLocks

Acquire(t) ==
  /\ t \in Busy
  /\ NextOp(t).op = "acq"
  /\ Holders(NextOp(t).lock, NextOp(t).mode) = {}
  /\ Advance(t)
  /\ UNCHANGED notLocks

Release(t) ==
  /\ t \in Busy
  /\ NextOp(t).op = "rel"
  /\ Advance(t)
  /\ UNCHANGED notLocks

BlockingIo(t) ==
  /\ t \in Busy
  /\ NextOp(t).op = "io"
  /\ Advance(t)
  /\ UNCHANGED notLocks

NextLocks ==
  \/ \E t \in LockThreads : \E job \in JobsOf(t) : Enter(t, job)
  \/ \E t \in LockThreads : Acquire(t)
  \/ \E t \in LockThreads : Release(t)
  \/ \E t \in LockThreads : BlockingIo(t)

SpecLocks == Init /\ [][NextLocks]_vars

Waiting(t) ==
  /\ t \in Busy
  /\ NextOp(t).op = "acq"
  /\ Holders(NextOp(t).lock, NextOp(t).mode) # {}

InIo(t) == t \in Busy /\ NextOp(t).op = "io"

\* The locks the sentence names: buffer table, latest-frame cell, callback
\* cell, input senders, touch state.
SharedLocks ==
  {"buffers", "gralloc_framebuffer", "framebuffer_callback",
   "INPUT_SENDER", "KEY_SENDER", "G_INPUT_MT"}

\* C34: a thread that is in a blocking read or write holds none of the
\* shared locks, unless it is handle_lock writing the pixel data under the
\* read lock of the buffer table.
C34_NoLockAcrossIo ==
  \A t \in LockThreads :
    (InIo(t) /\ Held(t) \cap SharedLocks # {})
      => /\ lth[t].job = "handle_lock"
         /\ NextOp(t).lock = "pixels"
         /\ Held(t) = {"buffers"}
         /\ HeldMode(t, "buffers") = "read"

\* C35: there is no set of threads each of which waits for a lock held by
\* a thread of the set.
C35_NoDeadlock ==
  ~ \E S \in (SUBSET {t \in LockThreads : Waiting(t)}) \ {{}} :
      \A t \in S : Holders(NextOp(t).lock, NextOp(t).mode) \cap S # {}

\* A Present that holds the buffer table and the callback waits for the
\* cell a tick is reading, and a second Present waits for the callback.
C35_Witness ==
  /\ Waiting("worker1") /\ Waiting("worker2")
  /\ lth["worker1"].job = "handle_present"
  /\ lth["worker2"].job = "handle_present"
  /\ NextOp("worker1").lock = "gralloc_framebuffer"
  /\ NextOp("worker2").lock = "framebuffer_callback"
  /\ HeldMode("tick", "gralloc_framebuffer") = "read"

(* ==================== concurrent handlers of gralloc ==================== *)
\* C37: the response that handle_unlock_with_data writes for a request
\* with a payload has status 0 if the payload was copied into the entry
\* and status -1 if nothing was copied.
C37_UnlockReplyMatchesCopy ==
  [][\A c \in Conns :
       (gpc[c] = "unlock" /\ gpc'[c] = "idle")
         => /\ reply'[c].status = (IF greq[c].g_copied THEN 0 ELSE -1)
            /\ reply'[c].buffer_id = greq[c].buffer_id]_vars

\* Present takes one request more than the other commands, so that two
\* buffers can be allocated and both presented.
MorePresents == nReqs < MaxRequests + 1

\* The gralloc server with its callback installed, as after
\* set_gralloc_server: Allocate, and Present for buffers of the table.
NextPresent ==
  \/ \E c \in Conns : Connect(c)
  \/ SetCallback
  \/ /\ MorePresents /\ MoreBuffers /\ callback
     /\ \E c \in Conns, shape \in AllocShapes : AllocateFetch(c, shape)
  \/ \E c \in Conns : AllocateInsert(c)
  \/ /\ MorePresents /\ callback
     /\ \E c \in Conns, id \in BufferIds :
          Has(buffers, id) /\ PresentSet(c, id)
  \/ \E c \in Conns : PresentCall(c)
  \/ \E c \in Conns : PresentReply(c)

SpecPresent == Init /\ [][NextPresent]_vars

\* C36: when no Present is being served and one has been, the latest-frame
\* cell holds (data, width, height) of the buffer display_buffer_id names.
C36_CellIsPresentedBuffer ==
  ( /\ \A c \in Conns : gpc[c] \notin {"present", "presented"}
    /\ display_buffer_id # NoneId )
    => /\ Has(buffers, display_buffer_id)
       /\ cell = CellAfterCallback(display_buffer_id)

(* ========================= start() and stop() ========================= *)
\* stop(): running.store(false, SeqCst).
Stop ==
  /\ running
  /\ running' = FALSE
  /\ UNCHANGED <<workers, spc, nStarts, clients, cpc, link, recv, fbfile, g_fan>>
  /\ UNCHANGED <<inputVars, gVars, restVars>>

\* The worker finds the flag cleared at `while running.load(SeqCst)` and
\* leaves its loop.
WorkerExit(w) ==
  /\ w \in DOMAIN workers
  /\ workers[w].pc = "top"
  /\ ~running
  /\ workers' = [workers EXCEPT ![w].pc = "done"]
  /\ UNCHANGED <<running, spc, nStarts, clients, cpc, link, recv, fbfile, g_fan>>
  /\ UNCHANGED <<inputVars, gVars, restVars>>

\* start() and stop() called in any order by one thread, one control
\* client, and ticks.
NextStop ==
  \/ MoreStarts /\ StartSwap(1)
  \/ StartSpawn(1)
  \/ Stop
  \/ \E w \in 1..MaxStarts : WorkerExit(w)
  \/ AddClient(1)
  \/ \E w \in 1..MaxStarts : MoreTicks(w) /\ TickChoose(w)
  \/ \E w \in 1..MaxStarts : TickSend(w)

SpecStop == Init /\ [][NextStop]_vars

\* C38: at most one worker is inside its tick loop.
C38_OneWorkerAfterStop ==
  Cardinality({w \in DOMAIN workers : workers[w].pc # "done"}) <= 1

(* =================== slots across touch consumers ====================== *)
\* The event at position i of what consumer c of the touch device has
\* received selects slot s.
SelectsSlot(c, i, s) ==
  /\ wire["touch"][c][i].kind = EV_ABS
  /\ wire["touch"][c][i].code = ABS_MT_SLOT
  /\ wire["touch"][c][i].value = s

\* The event at position i gives the tracking id v.
TracksAs(c, i, v) ==
  /\ wire["touch"][c][i].kind = EV_ABS
  /\ wire["touch"][c][i].code = ABS_MT_TRACKING_ID
  /\ wire["touch"][c][i].value = v

\* The event at position i is the first of the position part of a MOVE
\* sub-sequence.
Positions(c, i) ==
  /\ wire["touch"][c][i].kind = EV_ABS
  /\ wire["touch"][c][i].code = ABS_MT_POSITION_X

\* C40: a touch consumer that has received the release of a slot, or a
\* MOVE sub-sequence for it, has received before it the tracking id
\* pid + 1 of the DOWN / POINTER_DOWN of that slot.
C40_ReleaseFollowsOwnDown ==
  \A c \in Consumers : \A s \in Slots :
    \A i \in 2..Len(wire["touch"][c]) :
      ( /\ SelectsSlot(c, i - 1, s)
        /\ (TracksAs(c, i, -1) \/ Positions(c, i)) )
        => \E j \in 2..(i - 2) :
             SelectsSlot(c, j - 1, s) /\ TracksAs(c, j, s + 1)
====
